---- MODULE Spec2Model ----
(***************************************************************************)
(* A model of gozssky/dbgen: the template lexer and parser (package        *)
(* template), the value operations (package constant) and the compiler and *)
(* evaluator (package dbgen).  Text is a sequence of one-character         *)
(* strings; positions are Go's 0-based byte offsets.                       *)
(***************************************************************************)
EXTENDS Integers, Sequences, FiniteSets, TLC

VARIABLES
    mode,       \* which component the behaviour exercises
    pc,         \* position of the driver inside that component
    src,        \* the input text handed to the lexer, Parse or ParseExpr
    lx,         \* the lexer object (template.lexer)
    toks,       \* tokens returned so far by successive lex() calls
    ast,        \* outcome of ParseExpr(src)
    printed,    \* Expr.String() of the parsed expression
    reparsed,   \* outcome of ParseExpr(printed)
    parsed,     \* outcome of Parse(src)
    cctx,       \* the CompileContext
    nodes,      \* outcomes of the CompileExpr calls on cctx, in call order
    evals,      \* outcomes of the Eval calls, in call order
    row,        \* the Row handed to Row.Eval
    rowState,   \* the State the Row is evaluated against
    result,     \* outcome of Row.Eval so far: position, values, error
    operands,   \* the operands handed to a function of package constant
    returned    \* what that function returned

vars == <<mode, pc, src, lx, toks, ast, printed, reparsed, parsed, cctx, nodes, evals,
          row, rowState, result, operands, returned>>

lexVars == <<lx, toks>>

exprVars == <<ast, printed, reparsed>>

evalVars == <<cctx, nodes, evals>>

rowVars == <<row, rowState, result>>

callVars == <<operands, returned>>

----------------------------------------------------------------------------
(* Characters *)

eof == "<eof>"

\* the byte 0x60, which a TLA+ string literal cannot hold
BackQuote == "<bq>"

Digits == {"0", "1", "2", "3", "4", "5", "6", "7", "8", "9"}

LowerChars ==
    <<"a","b","c","d","e","f","g","h","i","j","k","l","m",
      "n","o","p","q","r","s","t","u","v","w","x","y","z">>

UpperChars ==
    <<"A","B","C","D","E","F","G","H","I","J","K","L","M",
      "N","O","P","Q","R","S","T","U","V","W","X","Y","Z">>

Range(s) == {s[i] : i \in DOMAIN s}

\* Let([x \in {e} |-> b]) is b with x bound to the value of e
Let(f) == f[CHOOSE x \in DOMAIN f : TRUE]

SetMin(S) == CHOOSE x \in S : \A y \in S : x <= y

SetMax(S) == CHOOSE x \in S : \A y \in S : x >= y

\* strings.ToLower on one byte
ToLowerCh(c) ==
    IF \E i \in DOMAIN UpperChars : UpperChars[i] = c
    THEN LowerChars[CHOOSE i \in DOMAIN UpperChars : UpperChars[i] = c]
    ELSE c

ToLower(s) == [i \in DOMAIN s |-> ToLowerCh(s[i])]

isSpace(ch) == ch \in {" ", "\t"}

isWhitespace(ch) == ch \in {" ", "\t", "\r", "\n"}

isDigit(ch) == ch \in Digits

isHexDigit(ch) == ch \in Digits \cup {"a","b","c","d","e","f","A","B","C","D","E","F"}

isIdentStart(ch) == ch \in Range(LowerChars) \cup Range(UpperChars) \cup {"_"}

isIdentMiddle(ch) == isIdentStart(ch) \/ isDigit(ch)

\* strings.Index(s[from:], sub): offset relative to from, or -1
IndexFrom(s, sub, from) ==
    Let([hits \in {{i \in from .. (Len(s) - Len(sub)) : SubSeq(s, i + 1, i + Len(sub)) = sub}} |->
        IF hits = {} THEN -1 ELSE SetMin(hits) - from])

\* strings.HasPrefix(s[from:], pre)
HasPrefixFrom(s, pre, from) ==
    from + Len(pre) <= Len(s) /\ SubSeq(s, from + 1, from + Len(pre)) = pre

----------------------------------------------------------------------------
(* Tokens *)

keywords ==
    <<
       <<<<"c","r","e","a","t","e">>, "Create">>,
       <<<<"t","a","b","l","e">>, "Table">>,
       <<<<"o","r">>, "Or">>,
       <<<<"a","n","d">>, "And">>,
       <<<<"n","o","t">>, "Not">>,
       <<<<"i","s">>, "Is">>,
       <<<<"r","o","w","n","u","m">>, "RowNum">>,
       <<<<"s","u","b","r","o","w","n","u","m">>, "SubRowNum">>,
       <<<<"n","u","l","l">>, "Null">>,
       <<<<"t","r","u","e">>, "True">>,
       <<<<"f","a","l","s","e">>, "False">>,
       <<<<"c","a","s","e">>, "Case">>,
       <<<<"w","h","e","n">>, "When">>,
       <<<<"t","h","e","n">>, "Then">>,
       <<<<"e","l","s","e">>, "Else">>,
       <<<<"e","n","d">>, "End">>,
       <<<<"t","i","m","e","s","t","a","m","p">>, "Timestamp">>,
       <<<<"i","n","t","e","r","v","a","l">>, "Interval">>,
       <<<<"w","e","e","k">>, "Week">>,
       <<<<"d","a","y">>, "Day">>,
       <<<<"h","o","u","r">>, "Hour">>,
       <<<<"m","i","n","u","t","e">>, "Minute">>,
       <<<<"s","e","c","o","n","d">>, "Second">>,
       <<<<"m","i","l","l","i","s","e","c","o","n","d">>, "Millisecond">>,
       <<<<"m","i","c","r","o","s","e","c","o","n","d">>, "Microsecond">>,
       <<<<"w","i","t","h">>, "With">>,
       <<<<"t","i","m","e">>, "Time">>,
       <<<<"z","o","n","e">>, "Zone">>,
       <<<<"s","u","b","s","t","r","i","n","g">>, "Substring">>,
       <<<<"f","r","o","m">>, "From">>,
       <<<<"f","o","r">>, "For">>,
       <<<<"u","s","i","n","g">>, "Using">>,
       <<<<"c","h","a","r","a","c","t","e","r","s">>, "Characters">>,
       <<<<"o","c","t","e","t","s">>, "Octets">>,
       <<<<"o","v","e","r","l","a","y">>, "Overlay">>,
       <<<<"p","l","a","c","i","n","g">>, "Placing">>,
       <<<<"c","u","r","r","e","n","t","_","t","i","m","e","s","t","a","m","p">>, "CurrentTimestamp">>,
       <<<<"a","r","r","a","y">>, "Array">>,
       <<<<"e","a","c","h">>, "Each">>,
       <<<<"r","o","w">>, "Row">>,
       <<<<"o","f">>, "Of">>,
       <<<<"g","e","n","e","r","a","t","e">>, "Generate">>,
       <<<<"r","o","w","s">>, "Rows">>,
       <<<<"x">>, "X">>
    >>

IsKeyword(s) == \E i \in DOMAIN keywords : keywords[i][1] = s

KeywordType(s) == keywords[CHOOSE i \in DOMAIN keywords : keywords[i][1] = s][2]

specialChars ==
    << <<"(", "LeftParen">>, <<")", "RightParen">>, <<"[", "LeftBrack">>,
       <<"]", "RightBrack">>, <<"{", "LeftBrace">>, <<"}", "RightBrace">>,
       <<";", "Semicolon">>, <<",", "Comma">>, <<"<", "LT">>, <<">", "GT">>,
       <<"=", "EQ">>, <<"&", "BitAnd">>, <<"|", "BitOr">>, <<"^", "BitXor">>,
       <<"~", "BitNot">>, <<"+", "Add">>, <<"-", "Sub">>, <<"*", "Mul">>,
       <<"/", "FloatDiv">>, <<".", "Period">>, <<"@", "At">> >>

rightComment == <<"*", "/">>

leftDelim == <<"{", "{">>

rightDelim == <<"}", "}">>

leftCommentedDelim == <<"/", "*", "{", "{">>

rightCommentedDelim == <<"}", "}", "*", "/">>

mkTok(t, p, v, ln, c) == [typ |-> t, pos |-> p, val |-> v, line |-> ln, col |-> c]

----------------------------------------------------------------------------
(* Lexer *)

newLexer(in) ==
    [in |-> in, pos |-> 0, line |-> 1, linePos |-> -1,
     start |-> 0, startLine |-> 1, startCol |-> 1, insideBlock |-> FALSE]

peek(l) == IF l.pos >= Len(l.in) THEN eof ELSE l.in[l.pos + 1]

peekN(l, n) == IF l.pos + n >= Len(l.in) THEN eof ELSE l.in[l.pos + n + 1]

\* the lexer after next(); the byte it returns is peek(l)
next(l) ==
    [l EXCEPT !.line = IF peek(l) = "\n" THEN @ + 1 ELSE @,
              !.linePos = IF peek(l) = "\n" THEN l.pos ELSE @,
              !.pos = IF l.pos < Len(l.in) THEN @ + 1 ELSE @]

RECURSIVE advance(_, _)
advance(l, n) == IF n <= 0 THEN l ELSE advance(next(l), n - 1)

RECURSIVE skipWhitespace(_)
skipWhitespace(l) == IF isWhitespace(peek(l)) THEN skipWhitespace(next(l)) ELSE l

\* l.pos += n, with no line accounting
bump(l, n) == [l EXCEPT !.pos = @ + n]

\* emit slices l.in[l.start:l.pos]; Go panics when pos is beyond the input
emit(l, t) ==
    IF l.pos > Len(l.in)
    THEN [tok |-> mkTok("Panic", l.start, <<"slice bounds out of range">>, l.startLine, l.startCol),
          l |-> l]
    ELSE [tok |-> mkTok(t, l.start, SubSeq(l.in, l.start + 1, l.pos), l.startLine, l.startCol),
          l |-> [l EXCEPT !.start = l.pos, !.startLine = l.line,
                          !.startCol = l.pos - l.linePos]]

errorf(l, msg) ==
    [tok |-> mkTok("Error", l.start, <<msg>>, l.startLine, l.startCol),
     l |-> newLexer(<<>>)]

lexChar(l) ==
    Let([ch \in {peek(l)} |->
        Let([hit \in {{i \in DOMAIN specialChars : specialChars[i][1] = ch}} |->
        IF hit # {}
        THEN emit(next(l), specialChars[CHOOSE i \in hit : TRUE][2])
        ELSE emit(next(l), "Char")])])

lexTwoChars(l, typ) == emit(advance(l, 2), typ)

\* the character classes handed to accept
isClass(cls, ch) ==
    CASE cls = "digit" -> isDigit(ch)
      [] cls = "hex" -> isHexDigit(ch)
      [] cls = "ident" -> isIdentMiddle(ch)

RECURSIVE accept(_, _)
accept(l, cls) == IF isClass(cls, peek(l)) THEN accept(next(l), cls) ELSE l

lexLeftDelim(l) ==
    IF peek(l) = "/"
    THEN emit([bump(l, Len(leftCommentedDelim)) EXCEPT !.insideBlock = TRUE], "LeftDelim")
    ELSE emit(bump(l, Len(leftDelim)), "LeftDelim")

lexRightDelim(l) ==
    IF l.insideBlock
    THEN emit([bump(l, Len(rightCommentedDelim)) EXCEPT !.insideBlock = FALSE], "RightDelim")
    ELSE emit(bump(l, Len(rightDelim)), "RightDelim")

RECURSIVE lineCommentLoop(_)
lineCommentLoop(l) ==
    IF peek(l) \in {eof, "\n"} THEN emit(next(l), "Comment") ELSE lineCommentLoop(next(l))

lexComment(l) ==
    IF peek(l) = "-"
    THEN lineCommentLoop(advance(l, 2))
    ELSE Let([rightCommentIdx \in {IndexFrom(l.in, rightComment, l.pos)} |->
             Let([leftAtDelim \in {HasPrefixFrom(l.in, leftCommentedDelim, l.pos)} |->
             Let([rightDelimIdx \in {IndexFrom(l.in, rightCommentedDelim, l.pos)} |->
             IF rightCommentIdx = -1
             THEN errorf(l, "unclosed comment")
             ELSE IF leftAtDelim /\ rightDelimIdx # -1 /\ rightDelimIdx + 2 = rightCommentIdx
             THEN lexLeftDelim(l)
             ELSE emit(advance(l, rightCommentIdx + Len(rightComment)), "Comment")])])])

RECURSIVE lexQuoteLoop(_, _)
lexQuoteLoop(l, ch0) ==
    Let([ch \in {peek(l)} |->
        Let([l1 \in {next(l)} |->
        IF ch = eof
        THEN errorf(l1, "unterminated quoted string")
        ELSE IF ch = ch0
        THEN IF peek(l1) = ch0
             THEN lexQuoteLoop(next(l1), ch0)
             ELSE emit(l1, IF ch0 = "'" THEN "String" ELSE "Ident")
        ELSE lexQuoteLoop(l1, ch0)])])

lexQuote(l) == lexQuoteLoop(next(l), peek(l))

lexIdent(l) ==
    Let([l1 \in {accept(next(l), "ident")} |->
        Let([word \in {ToLower(SubSeq(l1.in, l1.start + 1, l1.pos))} |->
        IF IsKeyword(word) THEN emit(l1, KeywordType(word)) ELSE emit(l1, "Ident")])])

RECURSIVE skipDigitsRaw(_)
skipDigitsRaw(l) == IF isDigit(peek(l)) THEN skipDigitsRaw(bump(l, 1)) ELSE l

lexNumber(l) ==
    IF peek(l) = "0" /\ peekN(l, 1) \in {"x", "X"} /\ isHexDigit(peekN(l, 2))
    THEN emit(accept(bump(l, 3), "hex"), "Number")
    ELSE Let([l1 \in {skipDigitsRaw(l)} |->
             Let([l2 \in {IF peek(l1) = "." THEN accept(bump(l1, 1), "digit") ELSE l1} |->
             Let([ch0 \in {peek(l2)} |->
             Let([ch1 \in {peekN(l2, 1)} |->
             Let([ch2 \in {peekN(l2, 2)} |->
             Let([l3 \in {IF ch0 \in {"e", "E"}
                          THEN accept(IF isDigit(ch1) THEN bump(l2, 2)
                                      ELSE IF ch1 \in {"+", "-"} /\ isDigit(ch2) THEN bump(l2, 3)
                                      ELSE l2, "digit")
                          ELSE l2} |->
             emit(l3, "Number")])])])])])])

\* one lex() call: the token returned and the lexer afterwards
lex(l0) ==
    Let([lw \in {skipWhitespace(l0)} |->
        Let([l \in {[lw EXCEPT !.start = lw.pos, !.startLine = lw.line,
                               !.startCol = lw.pos - lw.linePos]} |->
        Let([ch \in {peek(l)} |->
        Let([ch1 \in {peekN(l, 1)} |->
        CASE ch = eof -> emit(l, "EOF")
          [] ch = "-" -> IF ch1 = "-" THEN lexComment(l) ELSE lexChar(l)
          [] ch = "/" -> IF l.insideBlock \/ ch1 # "*" THEN lexChar(l) ELSE lexComment(l)
          [] ch \in {BackQuote, "\"", "'"} -> lexQuote(l)
          [] ch = "{" -> IF ch1 = "{" THEN lexLeftDelim(l) ELSE lexChar(l)
          [] ch = "}" -> IF ch1 = "}" THEN lexRightDelim(l) ELSE lexChar(l)
          [] ch = "|" -> IF ch1 = "|" THEN lexTwoChars(l, "Concat") ELSE lexChar(l)
          [] ch = "<" -> IF ch1 = "=" THEN lexTwoChars(l, "LE")
                         ELSE IF ch1 = ">" THEN lexTwoChars(l, "NE")
                         ELSE lexChar(l)
          [] ch = ">" -> IF ch1 = "=" THEN lexTwoChars(l, "GE") ELSE lexChar(l)
          [] ch = "." -> IF isDigit(ch1) THEN lexNumber(l) ELSE lexChar(l)
          [] ch = ":" -> IF ch1 = "=" THEN lexTwoChars(l, "Assign") ELSE lexChar(l)
          [] OTHER -> IF isDigit(ch) THEN lexNumber(l)
                      ELSE IF isIdentStart(ch) THEN lexIdent(l)
                      ELSE lexChar(l)])])])])

----------------------------------------------------------------------------
(* Values (package constant) *)

\* The model's word size: int64 and time.Duration are IntBits-bit two's
\* complement words, so that the 64-bit fast path and its overflow into
\* big.Int can be reached with small numbers.
IntBits == 8

RECURSIVE Pow(_, _)
Pow(b, e) == IF e <= 0 THEN 1 ELSE b * Pow(b, e - 1)

MaxInt64 == Pow(2, IntBits - 1) - 1

MinInt64 == -Pow(2, IntBits - 1)

\* big.Int.IsInt64
FitsInt64(n) == MinInt64 <= n /\ n <= MaxInt64

\* conversion of an integer to the 64-bit word (wrap-around)
Wrap64(n) == ((n - MinInt64) % Pow(2, IntBits)) + MinInt64

Abs(n) == IF n < 0 THEN -n ELSE n

RECURSIVE Gcd(_, _)
Gcd(a, b) == IF b = 0 THEN Abs(a) ELSE Gcd(Abs(b), Abs(a) % Abs(b))

\* A Value.  kind is the Kind; n is the integer, the bool (0/1), the duration,
\* the instant or the float's numerator; d is the float's denominator (0 for
\* an infinity or NaN); big tells intVal from int64Val; b holds the bytes
\* and a the array elements.
mkValue(kind, n, d, big, b, a) ==
    [kind |-> kind, n |-> n, d |-> d, big |-> big, b |-> b, a |-> a]

Null == mkValue("Null", 0, 1, FALSE, <<>>, <<>>)

\* the nil Value interface (no dynamic type)
NilValue == mkValue("nil", 0, 1, FALSE, <<>>, <<>>)

MakeBool(x) == mkValue("Bool", IF x THEN 1 ELSE 0, 1, FALSE, <<>>, <<>>)

MakeBytes(bs) == mkValue("Bytes", 0, 1, FALSE, bs, <<>>)

MakeInt64(i) == mkValue("Int", i, 1, FALSE, <<>>, <<>>)

\* intVal{i}: the big.Int representation, whatever the magnitude
bigIntVal(i) == mkValue("Int", i, 1, TRUE, <<>>, <<>>)

MakeInt(i) == IF FitsInt64(i) THEN MakeInt64(i) ELSE bigIntVal(i)

\* a float64 as the fraction num/den in lowest terms
MakeFloat(num, den) ==
    IF den = 0
    THEN mkValue("Float", IF num > 0 THEN 1 ELSE IF num < 0 THEN -1 ELSE 0, 0, FALSE, <<>>, <<>>)
    ELSE Let([g \in {Gcd(num, den)} |->
             Let([s \in {IF den < 0 THEN -1 ELSE 1} |->
             mkValue("Float", s * (num \div g), s * (den \div g), FALSE, <<>>, <<>>)])])

MakeTimestamp(t) == mkValue("Timestamp", t, 1, FALSE, <<>>, <<>>)

MakeInterval(dur) == mkValue("Interval", dur, 1, FALSE, <<>>, <<>>)

MakeArray(a) ==
    IF Len(a) = 0
    THEN mkValue("Array", 0, 1, FALSE, <<>>, <<NilValue>>)
    ELSE mkValue("Array", 0, 1, FALSE, <<>>, a)

----------------------------------------------------------------------------
(* Number literals and decimal text *)

DigitChars == <<"0", "1", "2", "3", "4", "5", "6", "7", "8", "9",
                "a", "b", "c", "d", "e", "f">>

\* the value of a (hex) digit
DigitVal(c) == (CHOOSE i \in DOMAIN DigitChars : DigitChars[i] = ToLowerCh(c)) - 1

RECURSIVE ParseBase(_, _, _)
ParseBase(s, base, acc) ==
    IF s = <<>> THEN acc ELSE ParseBase(Tail(s), base, acc * base + DigitVal(Head(s)))

AllIn(s, pred(_)) == \A i \in DOMAIN s : pred(s[i])

isOctDigit(c) == c \in {"0", "1", "2", "3", "4", "5", "6", "7"}

\* strconv.FormatInt(n, 10) / big.Int.String
RECURSIVE NatToStr(_)
NatToStr(n) ==
    IF n < 10 THEN <<DigitChars[n + 1]>> ELSE NatToStr(n \div 10) \o <<DigitChars[(n % 10) + 1]>>

IntToStr(n) == IF n < 0 THEN <<"-">> \o NatToStr(-n) ELSE NatToStr(n)

\* the index (1-based) of the first element of s in set, or 0
FirstIn(s, set) ==
    Let([hits \in {{i \in DOMAIN s : s[i] \in set}} |->
        IF hits = {} THEN 0 ELSE SetMin(hits)])

\* strconv.ParseFloat on the text of a Number token:
\* digits [. digits] [e [+-] digits], or . digits
ParseFloat(s) ==
    Let([ePos \in {FirstIn(s, {"e", "E"})} |->
        Let([mant \in {IF ePos = 0 THEN s ELSE SubSeq(s, 1, ePos - 1)} |->
        Let([expS \in {IF ePos = 0 THEN <<>> ELSE SubSeq(s, ePos + 1, Len(s))} |->
        Let([expNeg \in {expS # <<>> /\ Head(expS) = "-"} |->
        Let([expDigits \in {IF expS # <<>> /\ Head(expS) \in {"+", "-"} THEN Tail(expS) ELSE expS} |->
        Let([exp \in {(IF expNeg THEN -1 ELSE 1) * ParseBase(expDigits, 10, 0)} |->
        Let([dot \in {FirstIn(mant, {"."})} |->
        Let([ip \in {IF dot = 0 THEN mant ELSE SubSeq(mant, 1, dot - 1)} |->
        Let([fp \in {IF dot = 0 THEN <<>> ELSE SubSeq(mant, dot + 1, Len(mant))} |->
        Let([num \in {ParseBase(ip \o fp, 10, 0)} |->
        Let([e10 \in {exp - Len(fp)} |->
        IF e10 >= 0 THEN MakeFloat(num * Pow(10, e10), 1) ELSE MakeFloat(num, Pow(10, -e10))])])])])])])])])])])])

\* MakeNumberFromLiteral: [ok, v]
MakeNumberFromLiteral(s) ==
    IF s # <<>> /\ AllIn(s, isDigit) /\ FitsInt64(ParseBase(s, 10, 0))
    THEN [ok |-> TRUE, v |-> MakeInt64(ParseBase(s, 10, 0))]
    ELSE IF Len(s) > 2 /\ s[1] = "0" /\ s[2] \in {"x", "X"} /\ AllIn(SubSeq(s, 3, Len(s)), isHexDigit)
    THEN [ok |-> TRUE, v |-> bigIntVal(ParseBase(SubSeq(s, 3, Len(s)), 16, 0))]
    ELSE IF s # <<>> /\ AllIn(s, isDigit) /\ s[1] # "0"
    THEN [ok |-> TRUE, v |-> bigIntVal(ParseBase(s, 10, 0))]
    ELSE IF Len(s) > 1 /\ AllIn(s, isOctDigit) /\ s[1] = "0"
    THEN [ok |-> TRUE, v |-> bigIntVal(ParseBase(s, 8, 0))]
    ELSE [ok |-> TRUE, v |-> ParseFloat(s)]

\* the decimal digits and decimal point of a finite float (strconv's decimal):
\* the value is 0.d1d2...dn * 10^dp
RECURSIVE FloatScale(_, _, _)
FloatScale(num, den, k) ==
    IF (num * Pow(10, k)) % den = 0 THEN k ELSE FloatScale(num, den, k + 1)

RECURSIVE StripZeros(_)
StripZeros(s) ==
    IF s # <<>> /\ s[Len(s)] = "0" THEN StripZeros(SubSeq(s, 1, Len(s) - 1)) ELSE s

Zeros(n) == [i \in 1 .. n |-> "0"]

\* strconv.FormatFloat(f, 'g', -1, 64), for a float with a finite decimal expansion
FormatFloat(v) ==
    LET (* each is evaluated only where it is used *)
        neg == v.n < 0
        k == FloatScale(Abs(v.n), v.d, 0)
        whole == (Abs(v.n) * Pow(10, k)) \div v.d
        all == NatToStr(whole)
        digs == IF whole = 0 THEN <<>> ELSE StripZeros(all)
        nd == Len(digs)
        dp == IF whole = 0 THEN 0 ELSE Len(all) - k
        exp == dp - 1
        sign == IF neg THEN <<"-">> ELSE <<>>
        expStr == NatToStr(Abs(exp))
        fmtE == <<Head(digs)>> \o (IF nd > 1 THEN <<".">> \o Tail(digs) ELSE <<>>)
                \o <<"e", IF exp < 0 THEN "-" ELSE "+">>
                \o (IF Len(expStr) < 2 THEN <<"0">> ELSE <<>>) \o expStr
        intPart == IF dp > 0
                   THEN SubSeq(digs, 1, IF dp < nd THEN dp ELSE nd) \o Zeros(IF dp > nd THEN dp - nd ELSE 0)
                   ELSE <<"0">>
        prec == IF nd - dp > 0 THEN nd - dp ELSE 0
        frac == [i \in 1 .. prec |-> IF dp + i >= 1 /\ dp + i <= nd THEN digs[dp + i] ELSE "0"]
        fmtF == intPart \o (IF prec > 0 THEN <<".">> \o frac ELSE <<>>)
    IN  IF v.d = 0
        THEN (IF v.n > 0 THEN <<"+", "I", "n", "f">> ELSE IF v.n < 0 THEN <<"-", "I", "n", "f">> ELSE <<"N", "a", "N">>)
        ELSE sign \o (IF whole # 0 /\ (exp < -4 \/ exp >= 6) THEN fmtE ELSE fmtF)

----------------------------------------------------------------------------
(* The syntax tree *)

\* the concatenation of a sequence of strings
RECURSIVE Flatten(_)
Flatten(ss) == IF ss = <<>> THEN <<>> ELSE Head(ss) \o Flatten(Tail(ss))

\* strings.ReplaceAll(s, old, new): non-overlapping, left to right
RECURSIVE ReplaceAll(_, _, _)
ReplaceAll(s, old, new) ==
    IF s = <<>> THEN <<>>
    ELSE IF Len(old) > 0 /\ Len(s) >= Len(old) /\ SubSeq(s, 1, Len(old)) = old
    THEN new \o ReplaceAll(SubSeq(s, Len(old) + 1, Len(s)), old, new)
    ELSE <<Head(s)>> \o ReplaceAll(Tail(s), old, new)

unescape(s) ==
    IF Len(s) < 2 THEN s
    ELSE IF s[1] \in {"\"", BackQuote, "'"}
    THEN ReplaceAll(SubSeq(s, 2, Len(s) - 1), <<s[1], s[1]>>, <<s[1]>>)
    ELSE IF s[1] = "["
    THEN SubSeq(s, 2, Len(s) - 1)
    ELSE s

singleQuote(s) == <<"'">> \o ReplaceAll(s, <<"'">>, <<"'", "'">>) \o <<"'">>

backQuote(s) == <<BackQuote>> \o ReplaceAll(s, <<BackQuote>>, <<BackQuote, BackQuote>>) \o <<BackQuote>>

\* Name{O, N}
NewName(name) == [O |-> name, N |-> ToLower(unescape(name))]

\* QName.Parts
NewQName(names) == [i \in DOMAIN names |-> NewName(names[i])]

RECURSIVE Join(_, _)
Join(ss, sep) ==
    IF ss = <<>> THEN <<>>
    ELSE IF Len(ss) = 1 THEN ss[1]
    ELSE ss[1] \o sep \o Join(Tail(ss), sep)

QNameString(q) == Join([i \in DOMAIN q |-> q[i].O], <<".">>)

\* a faulty unique name: the parts joined as they are
UniqueNameUnescaped(q) == Join([i \in DOMAIN q |-> q[i].N], <<".">>)

UniqueName(q) ==
    Join([i \in DOMAIN q |-> ReplaceAll(q[i].N, <<".">>, <<"%", "2", "E">>)], <<".">>)

QNameEqual(q, other) == UniqueName(q) = UniqueName(other)

\* An Expr.  k is the node's Go type; op is its Op, its interval or string
\* unit, or its WithTimezone flag; name is a variable name; qn a function's
\* QName; val a constant's Value; kids are the sub-expressions in field order.
mkExpr(k, op, name, qn, val, kids) ==
    [k |-> k, op |-> op, name |-> name, qn |-> qn, val |-> val, kids |-> kids]

\* a nil Expr
NilExpr == mkExpr("nil", "", <<>>, <<>>, NilValue, <<>>)

RowNum == mkExpr("RowNum", "", <<>>, <<>>, NilValue, <<>>)

SubRowNum == mkExpr("SubRowNum", "", <<>>, <<>>, NilValue, <<>>)

CurrentTimestamp == mkExpr("CurrentTimestamp", "", <<>>, <<>>, NilValue, <<>>)

Constant(v) == mkExpr("Constant", "", <<>>, <<>>, v, <<>>)

GetVariable(name) == mkExpr("GetVariable", "", name, <<>>, NilValue, <<>>)

SetVariable(name, value) == mkExpr("SetVariable", "", name, <<>>, NilValue, <<value>>)

UnaryExpr(op, e) == mkExpr("UnaryExpr", op, <<>>, <<>>, NilValue, <<e>>)

BinaryExpr(op, left, right) == mkExpr("BinaryExpr", op, <<>>, <<>>, NilValue, <<left, right>>)

ParenExpr(e) == mkExpr("ParenExpr", "", <<>>, <<>>, NilValue, <<e>>)

FuncExpr(qn, args) == mkExpr("FuncExpr", "", <<>>, qn, NilValue, args)

\* kids: Value, Else, then each When as the pair Cond, Then
CaseValueWhen(value, whens, else) == mkExpr("CaseValueWhen", "", <<>>, <<>>, NilValue, <<value, else>> \o whens)

Timestamp(withTimezone, value) ==
    mkExpr("Timestamp", IF withTimezone THEN "WithTimezone" ELSE "", <<>>, <<>>, NilValue, <<value>>)

Interval(unit, value) == mkExpr("Interval", unit, <<>>, <<>>, NilValue, <<value>>)

Array(elems) == mkExpr("Array", "", <<>>, <<>>, NilValue, elems)

Subscript(base, index) == mkExpr("Subscript", "", <<>>, <<>>, NilValue, <<base, index>>)

\* kids: Input, From, For
Substring(unit, input, from, for) == mkExpr("Substring", unit, <<>>, <<>>, NilValue, <<input, from, for>>)

\* kids: Input, Placing, From, For
Overlay(unit, input, placing, from, for) ==
    mkExpr("Overlay", unit, <<>>, <<>>, NilValue, <<input, placing, from, for>>)

\* the zero StringUnit, of a SUBSTRING or OVERLAY without USING
StringUnitNone == ""

StringUnitCharacters == "Characters"

StringUnitOctets == "Octets"

----------------------------------------------------------------------------
(* Operators *)

OpTokens == {"Assign", "LT", "LE", "EQ", "NE", "GT", "GE", "Concat", "Add", "Sub", "Mul",
             "FloatDiv", "BitAnd", "BitOr", "BitXor", "BitNot", "Semicolon", "Or", "And",
             "Not", "Is"}

\* token.Op
Op(t) == IF t.typ \in OpTokens THEN t.typ ELSE "Invalid"

Prec(op) ==
    CASE op = "Semicolon" -> 1
      [] op = "Assign" -> 2
      [] op = "Or" -> 3
      [] op = "And" -> 4
      [] op = "Not" -> 5
      [] op \in {"LT", "LE", "GT", "GE", "EQ", "NE", "Is", "IsNot"} -> 6
      [] op \in {"BitOr", "BitXor"} -> 7
      [] op = "BitAnd" -> 8
      [] op \in {"Add", "Sub", "Concat"} -> 9
      [] op \in {"Mul", "FloatDiv"} -> 10
      [] op = "BitNot" -> 11
      [] OTHER -> 0

\* a faulty IsRightAssoc: no operator associates to the right
IsRightAssocNever(op) == FALSE

\* Op.IsRightAssoc
IsRightAssoc(op) == op = "Assign"

IsBinary(op) ==
    op \in {"Assign", "LT", "LE", "GT", "GE", "EQ", "NE", "Concat", "Add", "Sub", "Mul",
            "FloatDiv", "BitAnd", "BitOr", "BitXor", "Semicolon", "Or", "And", "Is", "IsNot"}

\* Op.String
OpString(op) ==
    CASE op = "Assign" -> <<":", "=">>
      [] op = "LT" -> <<"<">>
      [] op = "LE" -> <<"<", "=">>
      [] op = "GT" -> <<">">>
      [] op = "GE" -> <<">", "=">>
      [] op = "EQ" -> <<"=">>
      [] op = "NE" -> <<"<", ">">>
      [] op = "Concat" -> <<"|", "|">>
      [] op = "Add" -> <<"+">>
      [] op = "Sub" -> <<"-">>
      [] op = "Mul" -> <<"*">>
      [] op = "FloatDiv" -> <<"/">>
      [] op = "BitAnd" -> <<"&">>
      [] op = "BitOr" -> <<"|">>
      [] op = "BitXor" -> <<"^">>
      [] op = "BitNot" -> <<"~">>
      [] op = "Semicolon" -> <<";">>
      [] op = "Or" -> <<"O", "R">>
      [] op = "And" -> <<"A", "N", "D">>
      [] op = "Not" -> <<"N", "O", "T">>
      [] op = "Is" -> <<"I", "S">>
      [] op = "IsNot" -> <<"I", "S", " ", "N", "O", "T">>
      [] OTHER -> <<"i", "n", "v", "a", "l", "i", "d">>

----------------------------------------------------------------------------
(* The parser: token look-ahead and errors *)

\* the lexer's next token that is not a comment
RECURSIVE lexNoComment(_)
lexNoComment(l) ==
    Let([r \in {lex(l)} |->
        IF r.tok.typ = "Comment" THEN lexNoComment(r.l) ELSE r])

\* The tokens the calls of lexNoComment on l return, up to the first EOF.
\* After a panic the lexer is left at the end of its input.
RECURSIVE lexerTokens(_)
lexerTokens(l) ==
    Let([r \in {lexNoComment(l)} |->
        IF r.tok.typ = "EOF" THEN <<r.tok>>
        ELSE IF r.tok.typ = "Panic" THEN <<r.tok>> \o lexerTokens(newLexer(<<>>))
        ELSE <<r.tok>> \o lexerTokens(r.l)])

\* Parser.next.  The lexer does not depend on the parser: p.lex is held as
\* the tokens its next calls return, the last of which is the EOF it goes on
\* returning.  A panic of the lexer ends the parse: it is recorded in panicked.
pNext(p) ==
    [p EXCEPT !.tok = p.tok1,
              !.tok1 = Head(p.lex),
              !.lex = IF Len(p.lex) = 1 THEN p.lex ELSE Tail(p.lex),
              !.panicked = p.panicked \/ Head(p.lex).typ = "Panic"]

\* Parser.init: the zero token is an Error token with an empty text
pInit(input) ==
    pNext(pNext([lex |-> lexerTokens(newLexer(input)), input |-> input,
                 tok |-> mkTok("Error", 0, <<>>, 0, 0),
                 tok1 |-> mkTok("Error", 0, <<>>, 0, 0),
                 panicked |-> FALSE]))

isIdent(t) == IsKeyword(ToLower(t.val)) \/ t.typ = "Ident"

maxNearContentLength == 10

NoError == [Line |-> 0, Column |-> 0, Near |-> <<>>, Cause |-> <<>>]

\* a faulty errorf: the formatted message also at an Error token
SyntaxErrorFormatted(p, cause) ==
    Let([near \in {SubSeq(p.input, p.tok.pos + 1, Len(p.input))} |->
        [Line |-> p.tok.line, Column |-> p.tok.col,
         Near |-> IF Len(near) > maxNearContentLength THEN SubSeq(near, 1, maxNearContentLength) ELSE near,
         Cause |-> cause]])

\* Parser.errorf: the SyntaxError at the current token
SyntaxError(p, cause) ==
    Let([near \in {SubSeq(p.input, p.tok.pos + 1, Len(p.input))} |->
        [Line |-> p.tok.line, Column |-> p.tok.col,
         Near |-> IF Len(near) > maxNearContentLength THEN SubSeq(near, 1, maxNearContentLength) ELSE near,
         Cause |-> IF p.tok.typ = "Error" THEN p.tok.val ELSE cause]])

\* the outcome of a parsing method: the parser afterwards, and the
\* expression or the error returned
pOk(p, e) == [ok |-> TRUE, p |-> p, e |-> e, err |-> NoError]

pErr(p, cause) == [ok |-> FALSE, p |-> p, e |-> NilExpr, err |-> SyntaxError(p, cause)]

errorExpected(p, what) == pErr(p, <<"expected", what>>)

errorUnexpected(p) == pErr(p, <<"unexpected token">>)

\* Parser.expect
expect(p, typ) ==
    IF p.tok.typ # typ THEN errorExpected(p, typ) ELSE pOk(pNext(p), NilExpr)

\* Parser.parseOp: the operator and the parser after its next()
parseOp(p) ==
    IF Op(p.tok) = "Is" /\ Op(p.tok1) = "Not"
    THEN [op |-> "IsNot", next |-> pNext(pNext(p))]
    ELSE [op |-> Op(p.tok), next |-> pNext(p)]

\* Parser.parseQName: [ok, p, names] with e unused
RECURSIVE parseQNameLoop(_, _, _)
parseQNameLoop(p, names, i) ==
    IF i >= 2 \/ p.tok.typ # "Period"
    THEN [ok |-> TRUE, p |-> p, qn |-> NewQName(names), err |-> NoError]
    ELSE Let([p1 \in {pNext(p)} |->
             IF ~isIdent(p1.tok)
             THEN [ok |-> FALSE, p |-> p1, qn |-> <<>>, err |-> errorExpected(p1, "identifier").err]
             ELSE parseQNameLoop(pNext(p1), Append(names, p1.tok.val), i + 1)])

parseQName(p) ==
    IF ~isIdent(p.tok)
    THEN [ok |-> FALSE, p |-> p, qn |-> <<>>, err |-> errorExpected(p, "identifier").err]
    ELSE parseQNameLoop(pNext(p), <<p.tok.val>>, 0)

IntervalUnits == {"Week", "Day", "Hour", "Minute", "Second", "Millisecond", "Microsecond"}

----------------------------------------------------------------------------
(* The parser: expressions *)

RECURSIVE parseStmt(_), parseStmtLoop(_, _), parseBinaryExpr(_, _), parseBinaryLoop(_, _, _)
RECURSIVE parseUnaryExpr(_), parsePrimaryExpr(_), parseExprList(_, _, _)
RECURSIVE parseCaseValueWhen(_), parseCaseLoop(_, _, _, _), parseSubstring(_), parseOverlay(_)

parseExpr(p) == parseBinaryExpr(p, Prec("Semicolon"))

parseStmtLoop(p, expr) ==
    IF p.tok.typ # "Semicolon" THEN pOk(p, expr)
    ELSE Let([r \in {parseExpr(pNext(p))} |->
             IF ~r.ok THEN r ELSE parseStmtLoop(r.p, BinaryExpr("Semicolon", expr, r.e))])

parseStmt(p) ==
    Let([r \in {parseExpr(p)} |->
        IF ~r.ok THEN r ELSE parseStmtLoop(r.p, r.e)])

parseBinaryLoop(p, left, prec) ==
    Let([o \in {parseOp(p)} |->
        IF IsBinary(o.op) /\ (Prec(o.op) > prec \/ (Prec(o.op) = prec /\ IsRightAssoc(o.op)))
        THEN Let([r \in {parseBinaryExpr(o.next, Prec(o.op))} |->
                 IF ~r.ok THEN r
                 ELSE parseBinaryLoop(r.p,
                          IF left.k = "GetVariable" /\ o.op = "Assign"
                          THEN SetVariable(left.name, r.e)
                          ELSE BinaryExpr(o.op, left, r.e),
                          prec)])
        ELSE pOk(p, left)])

parseBinaryExpr(p, prec) ==
    Let([r \in {parseUnaryExpr(p)} |->
        IF ~r.ok THEN r ELSE parseBinaryLoop(r.p, r.e, prec)])

parseUnaryExpr(p) ==
    Let([op \in {Op(p.tok)} |->
        IF op = "Not"
        THEN Let([r \in {parseBinaryExpr(pNext(p), Prec(op))} |->
                 IF ~r.ok THEN r ELSE pOk(r.p, UnaryExpr(op, r.e))])
        ELSE IF op \in {"Add", "Sub", "BitNot"}
        THEN Let([r \in {parsePrimaryExpr(pNext(p))} |->
                 IF ~r.ok THEN r ELSE pOk(r.p, UnaryExpr(op, r.e))])
        ELSE Let([r \in {parsePrimaryExpr(p)} |->
                 IF ~r.ok THEN r
                 ELSE IF r.p.tok.typ # "LeftBrack" THEN r
                 ELSE Let([i \in {parseExpr(pNext(r.p))} |->
                          IF ~i.ok THEN i
                          ELSE Let([c \in {expect(i.p, "RightBrack")} |->
                                   IF ~c.ok THEN c ELSE pOk(c.p, Subscript(r.e, i.e))])])])])

\* the loop that reads the elements of an array or the arguments of a call,
\* up to the closing token
parseExprList(p, close, elems) ==
    IF p.tok.typ = close THEN [ok |-> TRUE, p |-> pNext(p), es |-> elems, err |-> NoError]
    ELSE Let([c \in {IF Len(elems) > 0 THEN expect(p, "Comma") ELSE pOk(p, NilExpr)} |->
             IF ~c.ok THEN [ok |-> FALSE, p |-> c.p, es |-> <<>>, err |-> c.err]
             ELSE Let([r \in {parseExpr(c.p)} |->
                      IF ~r.ok THEN [ok |-> FALSE, p |-> r.p, es |-> <<>>, err |-> r.err]
                      ELSE parseExprList(r.p, close, Append(elems, r.e))])])

parsePrimaryExpr(p) ==
    Let([typ \in {p.tok.typ} |->
        CASE typ = "RowNum" -> pOk(pNext(p), RowNum)
          [] typ = "SubRowNum" -> pOk(pNext(p), SubRowNum)
          [] typ = "Null" -> pOk(pNext(p), Constant(Null))
          [] typ = "True" -> pOk(pNext(p), Constant(MakeBool(TRUE)))
          [] typ = "False" -> pOk(pNext(p), Constant(MakeBool(FALSE)))
          [] typ = "CurrentTimestamp" -> pOk(pNext(p), CurrentTimestamp)
          [] typ = "LeftParen" ->
                Let([r \in {parseExpr(pNext(p))} |->
                    IF ~r.ok THEN r
                    ELSE Let([c \in {expect(r.p, "RightParen")} |->
                             IF ~c.ok THEN c ELSE pOk(c.p, ParenExpr(r.e))])])
          [] typ = "String" -> pOk(pNext(p), Constant(MakeBytes(unescape(p.tok.val))))
          [] typ = "Number" ->
                Let([n \in {MakeNumberFromLiteral(p.tok.val)} |->
                    IF ~n.ok THEN pErr(p, <<"invalid number">>) ELSE pOk(pNext(p), Constant(n.v))])
          [] typ = "Case" -> parseCaseValueWhen(p)
          [] typ = "Timestamp" ->
                Let([p1 \in {pNext(p)} |->
                    Let([w1 \in {IF p1.tok.typ = "With" THEN expect(pNext(p1), "Time") ELSE pOk(p1, NilExpr)} |->
                    Let([w2 \in {IF p1.tok.typ = "With" /\ w1.ok THEN expect(w1.p, "Zone") ELSE w1} |->
                    IF ~w2.ok THEN w2
                    ELSE Let([r \in {parsePrimaryExpr(w2.p)} |->
                             IF ~r.ok THEN r ELSE pOk(r.p, Timestamp(p1.tok.typ = "With", r.e))])])])])
          [] typ = "Interval" ->
                Let([r \in {parseExpr(pNext(p))} |->
                    IF ~r.ok THEN r
                    ELSE IF r.p.tok.typ \in IntervalUnits
                    THEN pOk(r.p, Interval(r.p.tok.typ, r.e))
                    ELSE errorExpected(r.p, "interval unit")])
          [] typ = "X" ->
                Let([r \in {parsePrimaryExpr(pNext(p))} |->
                    IF ~r.ok THEN r
                    ELSE pOk(r.p, FuncExpr(NewQName(<< <<"h", "e", "x">>, <<"d", "e", "c", "o", "d", "e">> >>), <<r.e>>))])
          [] typ = "At" ->
                Let([p1 \in {pNext(p)} |->
                    IF ~isIdent(p1.tok) THEN errorExpected(p1, "identifier")
                    ELSE pOk(pNext(p1), GetVariable(unescape(unescape(p1.tok.val))))])
          [] typ = "Array" ->
                Let([c \in {expect(pNext(p), "LeftBrack")} |->
                    IF ~c.ok THEN c
                    ELSE Let([l \in {parseExprList(c.p, "RightBrack", <<>>)} |->
                             IF ~l.ok THEN [ok |-> FALSE, p |-> l.p, e |-> NilExpr, err |-> l.err]
                             ELSE pOk(l.p, Array(l.es))])])
          [] typ = "Substring" -> parseSubstring(p)
          [] typ = "Overlay" -> parseOverlay(p)
          [] OTHER ->
                Let([q \in {parseQName(p)} |->
                    IF ~q.ok THEN [ok |-> FALSE, p |-> q.p, e |-> NilExpr, err |-> q.err]
                    ELSE Let([c \in {expect(q.p, "LeftParen")} |->
                             IF ~c.ok THEN c
                             ELSE Let([l \in {parseExprList(c.p, "RightParen", <<>>)} |->
                                      IF ~l.ok THEN [ok |-> FALSE, p |-> l.p, e |-> NilExpr, err |-> l.err]
                                      ELSE pOk(l.p, FuncExpr(q.qn, l.es))])])])])

\* the loop of parseCaseValueWhen; whens holds Cond, Then of each When
parseCaseLoop(p, value, whens, sawValueOrWhen) ==
    Let([typ \in {p.tok.typ} |->
        CASE typ = "When" ->
                Let([c \in {parseExpr(pNext(p))} |->
                    IF ~c.ok THEN c
                    ELSE Let([t \in {expect(c.p, "Then")} |->
                             IF ~t.ok THEN t
                             ELSE Let([s \in {parseStmt(t.p)} |->
                                      IF ~s.ok THEN s
                                      ELSE parseCaseLoop(s.p, value, whens \o <<c.e, s.e>>, TRUE)])])])
          [] typ = "Else" ->
                Let([s \in {parseStmt(pNext(p))} |->
                    IF ~s.ok THEN s
                    ELSE Let([c \in {expect(s.p, "End")} |->
                             IF ~c.ok THEN c ELSE pOk(c.p, CaseValueWhen(value, whens, s.e))])])
          [] typ = "End" -> pOk(pNext(p), CaseValueWhen(value, whens, NilExpr))
          [] OTHER ->
                IF sawValueOrWhen THEN errorExpected(p, "WHEN, ELSE or END")
                ELSE Let([v \in {parseExpr(p)} |->
                         IF ~v.ok THEN v ELSE parseCaseLoop(v.p, v.e, whens, TRUE)])])

parseCaseValueWhen(p) ==
    Let([c \in {expect(p, "Case")} |->
        IF ~c.ok THEN c ELSE parseCaseLoop(c.p, NilExpr, <<>>, FALSE)])

\* the optional "keyword expr" clause of SUBSTRING and OVERLAY
parseOptClause(p, keyword) ==
    IF p.tok.typ = keyword THEN parseExpr(pNext(p)) ELSE pOk(p, NilExpr)

\* the optional USING clause: [ok, p, unit, err]
parseUsing(p) ==
    IF p.tok.typ # "Using"
    THEN [ok |-> TRUE, p |-> p, unit |-> StringUnitNone, err |-> NoError]
    ELSE Let([p1 \in {pNext(p)} |->
             IF p1.tok.typ = "Octets"
             THEN [ok |-> TRUE, p |-> pNext(p1), unit |-> StringUnitOctets, err |-> NoError]
             ELSE IF p1.tok.typ = "Characters"
             THEN [ok |-> TRUE, p |-> pNext(p1), unit |-> StringUnitCharacters, err |-> NoError]
             ELSE [ok |-> FALSE, p |-> p1, unit |-> "", err |-> errorExpected(p1, "OCTETS or CHARACTERS").err]])

parseSubstring(p) ==
    Let([c0 \in {expect(p, "Substring")} |->
        IF ~c0.ok THEN c0 ELSE
        Let([c1 \in {expect(c0.p, "LeftParen")} |->
            IF ~c1.ok THEN c1 ELSE
        Let([input \in {parseExpr(c1.p)} |->
            IF ~input.ok THEN input ELSE
        Let([from \in {parseOptClause(input.p, "From")} |->
            IF ~from.ok THEN from ELSE
        Let([for \in {parseOptClause(from.p, "For")} |->
            IF ~for.ok THEN for ELSE
        Let([u \in {parseUsing(for.p)} |->
            IF ~u.ok THEN [ok |-> FALSE, p |-> u.p, e |-> NilExpr, err |-> u.err] ELSE
        Let([c2 \in {expect(u.p, "RightParen")} |->
            IF ~c2.ok THEN c2 ELSE pOk(c2.p, Substring(u.unit, input.e, from.e, for.e))])])])])])])])

parseOverlay(p) ==
    Let([c0 \in {expect(p, "Overlay")} |->
        IF ~c0.ok THEN c0 ELSE
        Let([c1 \in {expect(c0.p, "LeftParen")} |->
            IF ~c1.ok THEN c1 ELSE
        Let([input \in {parseExpr(c1.p)} |->
            IF ~input.ok THEN input ELSE
        Let([c2 \in {expect(input.p, "Placing")} |->
            IF ~c2.ok THEN c2 ELSE
        Let([placing \in {parseExpr(c2.p)} |->
            IF ~placing.ok THEN placing ELSE
        Let([c3 \in {expect(placing.p, "From")} |->
            IF ~c3.ok THEN c3 ELSE
        Let([from \in {parseExpr(c3.p)} |->
            IF ~from.ok THEN from ELSE
        Let([for \in {parseOptClause(from.p, "For")} |->
            IF ~for.ok THEN for ELSE
        Let([u \in {parseUsing(for.p)} |->
            IF ~u.ok THEN [ok |-> FALSE, p |-> u.p, e |-> NilExpr, err |-> u.err] ELSE
        Let([c4 \in {expect(u.p, "RightParen")} |->
            IF ~c4.ok THEN c4 ELSE pOk(c4.p, Overlay(u.unit, input.e, placing.e, from.e, for.e))])])])])])])])])])])

\* the outcome of a parse: "ok" with the expression, "error" with the
\* SyntaxError, or "panic"; tok is p.tok, the token the parser is left at
ParseOutcome(r) ==
    IF r.p.panicked THEN [st |-> "panic", e |-> NilExpr, err |-> NoError, tok |-> r.p.tok]
    ELSE IF r.ok THEN [st |-> "ok", e |-> r.e, err |-> NoError, tok |-> r.p.tok]
    ELSE [st |-> "error", e |-> NilExpr, err |-> r.err, tok |-> r.p.tok]

\* Parser.ParseExpr
ParseExpr(input) == ParseOutcome(parseExpr(pInit(input)))

----------------------------------------------------------------------------
(* Printing: Value.String and Expr.String *)

\* the text of a Go string literal, one character per element
Chars(str) ==
    CASE str = "NULL" -> <<"N", "U", "L", "L">>
      [] str = "TRUE" -> <<"T", "R", "U", "E">>
      [] str = "FALSE" -> <<"F", "A", "L", "S", "E">>
      [] str = "rownum" -> <<"r", "o", "w", "n", "u", "m">>
      [] str = "subrownum" -> <<"s", "u", "b", "r", "o", "w", "n", "u", "m">>
      [] str = "current_timestamp" ->
            <<"c", "u", "r", "r", "e", "n", "t", "_", "t", "i", "m", "e", "s", "t", "a", "m", "p">>
      [] str = "CASE" -> <<"C", "A", "S", "E">>
      [] str = "WHEN " -> <<"W", "H", "E", "N", " ">>
      [] str = " THEN " -> <<" ", "T", "H", "E", "N", " ">>
      [] str = " ELSE " -> <<" ", "E", "L", "S", "E", " ">>
      [] str = " END" -> <<" ", "E", "N", "D">>
      [] str = "TIMESTAMP " -> <<"T", "I", "M", "E", "S", "T", "A", "M", "P", " ">>
      [] str = "WITH TIME ZONE " ->
            <<"W", "I", "T", "H", " ", "T", "I", "M", "E", " ", "Z", "O", "N", "E", " ">>
      [] str = "INTERVAL " -> <<"I", "N", "T", "E", "R", "V", "A", "L", " ">>
      [] str = "ARRAY[" -> <<"A", "R", "R", "A", "Y", "[">>
      [] str = "substring(" -> <<"s", "u", "b", "s", "t", "r", "i", "n", "g", "(">>
      [] str = "overlay(" -> <<"o", "v", "e", "r", "l", "a", "y", "(">>
      [] str = " FROM " -> <<" ", "F", "R", "O", "M", " ">>
      [] str = " FOR " -> <<" ", "F", "O", "R", " ">>
      [] str = " PLACING " -> <<" ", "P", "L", "A", "C", "I", "N", "G", " ">>
      [] str = " USING CHARACTERS" ->
            <<" ", "U", "S", "I", "N", "G", " ", "C", "H", "A", "R", "A", "C", "T", "E", "R", "S">>
      [] str = " USING OCTETS" -> <<" ", "U", "S", "I", "N", "G", " ", "O", "C", "T", "E", "T", "S">>
      [] str = "WEEK" -> <<"W", "E", "E", "K">>
      [] str = "DAY" -> <<"D", "A", "Y">>
      [] str = "HOUR" -> <<"H", "O", "U", "R">>
      [] str = "MINUTE" -> <<"M", "I", "N", "U", "T", "E">>
      [] str = "SECOND" -> <<"S", "E", "C", "O", "N", "D">>
      [] str = "MILLISECOND" -> <<"M", "I", "L", "L", "I", "S", "E", "C", "O", "N", "D">>
      [] str = "MICROSECOND" -> <<"M", "I", "C", "R", "O", "S", "E", "C", "O", "N", "D">>
      [] str = " MICROSECOND" -> <<" ", "M", "I", "C", "R", "O", "S", "E", "C", "O", "N", "D">>

\* IntervalUnit.String
IntervalUnitString(u) ==
    CASE u = "Week" -> Chars("WEEK")
      [] u = "Day" -> Chars("DAY")
      [] u = "Hour" -> Chars("HOUR")
      [] u = "Minute" -> Chars("MINUTE")
      [] u = "Second" -> Chars("SECOND")
      [] u = "Millisecond" -> Chars("MILLISECOND")
      [] u = "Microsecond" -> Chars("MICROSECOND")

\* Value.String of the kinds a literal can have; a timestamp and a duration
\* print their number, an array its elements
RECURSIVE ValueString(_)
ValueString(v) ==
    CASE v.kind = "Null" -> Chars("NULL")
      [] v.kind = "Bool" -> IF v.n = 1 THEN Chars("TRUE") ELSE Chars("FALSE")
      [] v.kind = "Bytes" -> v.b
      [] v.kind = "Int" -> IntToStr(v.n)
      [] v.kind = "Float" -> FormatFloat(v)
      [] v.kind = "Timestamp" -> IntToStr(v.n)
      [] v.kind = "Interval" -> IntToStr(v.n)
      [] v.kind = "Array" ->
            <<"[">> \o Join([i \in DOMAIN v.a |-> ValueString(v.a[i])], <<",", " ">>) \o <<"]">>

\* Constant.String; the bytes of the model are ASCII, hence valid UTF-8
ConstantString(v) ==
    CASE v.kind = "Bytes" -> singleQuote(v.b)
      [] v.kind = "Interval" -> Chars("INTERVAL ") \o IntToStr(v.n) \o Chars(" MICROSECOND")
      [] OTHER -> ValueString(v)

\* Expr.String
RECURSIVE ExprString(_)
ExprString(e) ==
    LET (* each is evaluated only where it is used *)
        kid(i) == ExprString(e.kids[i])
        list == Join([i \in DOMAIN e.kids |-> ExprString(e.kids[i])], <<",", " ">>)
        unit == CASE e.op = StringUnitCharacters -> Chars(" USING CHARACTERS")
                  [] e.op = StringUnitOctets -> Chars(" USING OCTETS")
                  [] OTHER -> <<>>
        whens == [i \in 1 .. ((Len(e.kids) - 2) \div 2) |->
                     <<" ">> \o Chars("WHEN ") \o kid(2 * i + 1) \o Chars(" THEN ") \o kid(2 * i + 2)]
    IN  CASE e.k = "RowNum" -> Chars("rownum")
          [] e.k = "SubRowNum" -> Chars("subrownum")
          [] e.k = "CurrentTimestamp" -> Chars("current_timestamp")
          [] e.k = "Constant" -> ConstantString(e.val)
          [] e.k = "GetVariable" -> <<"@">> \o backQuote(e.name)
          [] e.k = "SetVariable" -> <<"@">> \o backQuote(e.name) \o <<" ", ":", "=", " ">> \o kid(1)
          [] e.k = "UnaryExpr" -> OpString(e.op) \o <<" ">> \o kid(1)
          [] e.k = "BinaryExpr" -> kid(1) \o <<" ">> \o OpString(e.op) \o <<" ">> \o kid(2)
          [] e.k = "ParenExpr" -> <<"(">> \o kid(1) \o <<")">>
          [] e.k = "FuncExpr" -> QNameString(e.qn) \o <<"(">> \o list \o <<")">>
          [] e.k = "CaseValueWhen" ->
                Chars("CASE")
                \o (IF e.kids[1].k # "nil" THEN <<" ">> \o kid(1) ELSE <<>>)
                \o Flatten(whens)
                \o (IF e.kids[2].k # "nil" THEN Chars(" ELSE ") \o kid(2) ELSE <<>>)
                \o Chars(" END")
          [] e.k = "Timestamp" ->
                Chars("TIMESTAMP ")
                \o (IF e.op = "WithTimezone" THEN Chars("WITH TIME ZONE ") ELSE <<>>) \o kid(1)
          [] e.k = "Interval" -> Chars("INTERVAL ") \o kid(1) \o <<" ">> \o IntervalUnitString(e.op)
          [] e.k = "Array" -> Chars("ARRAY[") \o list \o <<"]">>
          [] e.k = "Subscript" -> kid(1) \o <<"[">> \o kid(2) \o <<"]">>
          [] e.k = "Substring" ->
                Chars("substring(") \o kid(1)
                \o (IF e.kids[2].k # "nil" THEN Chars(" FROM ") \o kid(2) ELSE <<>>)
                \o (IF e.kids[3].k # "nil" THEN Chars(" FOR ") \o kid(3) ELSE <<>>)
                \o unit \o <<")">>
          [] e.k = "Overlay" ->
                Chars("overlay(") \o kid(1) \o Chars(" PLACING ") \o kid(2) \o Chars(" FROM ") \o kid(3)
                \o (IF e.kids[4].k # "nil" THEN Chars(" FOR ") \o kid(4) ELSE <<>>)
                \o unit \o <<")">>

----------------------------------------------------------------------------
(* The parser: templates *)

\* the outcome of a method that returns no expression
pFail(r) == [ok |-> FALSE, p |-> r.p, err |-> r.err]

\* Parser.parseStmtBlock: [ok, p, e, start, end, err]
parseStmtBlock(p) ==
    Let([start \in {p.tok.pos} |->
        Let([lDelim \in {p.tok.val} |->
        LET bad(r) == [ok |-> FALSE, p |-> r.p, e |-> NilExpr, start |-> 0, end |-> 0, err |-> r.err]
        IN Let([c \in {expect(p, "LeftDelim")} |->
        IF ~c.ok THEN bad(c) ELSE
        Let([s \in {parseStmt(c.p)} |->
            IF ~s.ok THEN bad(s) ELSE
        Let([rDelim \in {s.p.tok.val} |->
            Let([end \in {s.p.tok.pos + Len(s.p.tok.val)} |->
            IF lDelim = leftDelim /\ rDelim # rightDelim THEN bad(errorExpected(s.p, "}}"))
            ELSE IF lDelim = leftCommentedDelim /\ rDelim # rightCommentedDelim
            THEN bad(errorExpected(s.p, "}}*/"))
            ELSE Let([c2 \in {expect(s.p, "RightDelim")} |->
                     IF ~c2.ok THEN bad(c2)
                     ELSE [ok |-> TRUE, p |-> c2.p, e |-> s.e, start |-> start, end |-> end, err |-> NoError]])])])])])])])

\* Parser.parseStmtBlockList: [ok, p, list, err]
RECURSIVE parseStmtBlockList(_, _)
parseStmtBlockList(p, list) ==
    IF p.tok.typ # "LeftDelim" THEN [ok |-> TRUE, p |-> p, list |-> list, err |-> NoError]
    ELSE Let([b \in {parseStmtBlock(p)} |->
             IF ~b.ok THEN [ok |-> FALSE, p |-> b.p, list |-> <<>>, err |-> b.err]
             ELSE parseStmtBlockList(b.p, Append(list, b.e))])

CloseOf(open) ==
    CASE open = "LeftParen" -> "RightParen"
      [] open = "LeftBrack" -> "RightBrack"
      [] open = "LeftBrace" -> "RightBrace"

\* Parser.skipBalancedText, after its first next(): [ok, p, err]
RECURSIVE skipBalancedLoop(_, _)
skipBalancedLoop(p, closeTok) ==
    Let([typ \in {p.tok.typ} |->
        CASE typ = "EOF" -> pFail(pErr(p, <<"unbalanced text">>))
          [] typ \in {"RightParen", "RightBrack", "RightBrace"} ->
                IF typ # closeTok THEN pFail(pErr(p, <<"unbalanced text">>))
                ELSE [ok |-> TRUE, p |-> pNext(p), err |-> NoError]
          [] typ \in {"LeftParen", "LeftBrack", "LeftBrace"} ->
                Let([r \in {skipBalancedLoop(pNext(p), CloseOf(typ))} |->
                    IF ~r.ok THEN r ELSE skipBalancedLoop(r.p, closeTok)])
          [] typ = "Error" -> pFail(errorUnexpected(p))
          [] OTHER -> skipBalancedLoop(pNext(p), closeTok)])

skipBalancedText(p, closeTok) == skipBalancedLoop(pNext(p), closeTok)

skipAnyBalancedText(p) ==
    IF p.tok.typ \in {"LeftParen", "LeftBrack", "LeftBrace"}
    THEN skipBalancedText(p, CloseOf(p.tok.typ))
    ELSE [ok |-> TRUE, p |-> p, err |-> NoError]

\* s[a:b] of Go; a slice with a > b or b > len(s) panics
SliceOk(s, a, b) == 0 <= a /\ a <= b /\ b <= Len(s)

Slice(s, a, b) == SubSeq(s, a + 1, b)

\* strings.LastIndexByte(s, c) and strings.IndexByte(s, c), 0-based, -1 if absent
LastIndexByte(s, c) ==
    Let([hits \in {{i \in DOMAIN s : s[i] = c}} |->
        IF hits = {} THEN -1 ELSE SetMax(hits) - 1])

IndexByte(s, c) ==
    Let([hits \in {{i \in DOMAIN s : s[i] = c}} |->
        IF hits = {} THEN -1 ELSE SetMin(hits) - 1])

\* Parser.mergeBlockSpans; a span is <<start, end>>
RECURSIVE mergeLoop(_, _, _)
mergeLoop(input, merged, rest) ==
    IF rest = <<>> THEN merged
    ELSE Let([last \in {merged[Len(merged)]} |->
             Let([span \in {Head(rest)} |->
             Let([adjacent \in {\A i \in last[2] .. (span[1] - 1) : isWhitespace(input[i + 1])} |->
             IF adjacent
             THEN mergeLoop(input, [merged EXCEPT ![Len(merged)] = <<last[1], span[2]>>], Tail(rest))
             ELSE mergeLoop(input, Append(merged, span), Tail(rest))])])])

\* a faulty mergeBlockSpans: every span stays on its own
mergeNoSpans(input, blockSpans) == blockSpans

mergeBlockSpans(input, blockSpans) ==
    IF Len(blockSpans) = 0 THEN blockSpans
    ELSE mergeLoop(input, <<blockSpans[1]>>, Tail(blockSpans))

\* the loop of Parser.extractTableContent over the merged spans:
\* [panic, s], panic for a slice out of range
RECURSIVE extractLoop(_, _, _, _, _)
extractLoop(input, start, end, spans, buf) ==
    IF spans = <<>>
    THEN IF SliceOk(input, start, end)
         THEN [panic |-> FALSE, s |-> buf \o Slice(input, start, end)]
         ELSE [panic |-> TRUE, s |-> <<>>]
    ELSE Let([l0 \in {Head(spans)[1]} |->
             Let([r0 \in {Head(spans)[2]} |->
             IF ~SliceOk(input, start, l0) \/ ~SliceOk(input, r0, end)
             THEN [panic |-> TRUE, s |-> <<>>]
             ELSE Let([ln \in {LastIndexByte(Slice(input, start, l0), "\n")} |->
                      Let([rn \in {IndexByte(Slice(input, r0, end), "\n")} |->
                      Let([leftNewline \in {start + ln} |->
                      Let([rightNewLine \in {r0 + rn} |->
                      Let([isEmptyLine \in {
                                  /\ ln # -1
                                  /\ rn # -1
                                  /\ \A i \in (leftNewline + 1) .. (l0 - 1) : isSpace(input[i + 1])
                                  /\ \A i \in r0 .. (rightNewLine - 1) : isSpace(input[i + 1])} |->
                      Let([l \in {IF isEmptyLine THEN leftNewline
                                  ELSE IF l0 > start /\ isSpace(input[l0]) THEN l0 - 1 ELSE l0} |->
                      Let([r \in {IF isEmptyLine THEN rightNewLine + 1
                                  ELSE IF r0 < end /\ isSpace(input[r0 + 1]) THEN r0 + 1 ELSE r0} |->
                      Let([replace \in {IF isEmptyLine THEN "\n" ELSE " "} |->
                      IF ~SliceOk(input, start, l)
                      THEN [panic |-> TRUE, s |-> <<>>]
                      ELSE extractLoop(input, r, end, Tail(spans),
                                       buf \o Slice(input, start, l) \o <<replace>>)])])])])])])])])])])

extractTableContent(input, start, end, blockSpans) ==
    extractLoop(input, start, end, mergeBlockSpans(input, blockSpans), <<>>)

\* a Column
Column(colName, expr) == [Name |-> NewName(colName), Expr |-> expr]

\* a Table; a Derived entry is [index, count] with a 0-based table index
Table(qname, content, columns) ==
    [Name |-> qname, Content |-> content, Columns |-> columns, Derived |-> <<>>]

NilTable == Table(<<>>, <<>>, <<>>)

\* a faulty column name: the last identifier seen wins
colNameLast(colName, tok) == tok.val

\* if colName == "" { colName = p.tok.val }
colNameFirst(colName, tok) == IF colName = <<>> THEN tok.val ELSE colName

\* elemLoop of parseSingleTable: [ok, p, columns, blockSpans, err]
RECURSIVE elemLoop(_, _, _, _)
elemLoop(p, colName, columns, blockSpans) ==
    Let([typ \in {p.tok.typ} |->
        LET bad(r) == [ok |-> FALSE, p |-> r.p, columns |-> <<>>, blockSpans |-> <<>>, err |-> r.err]
    IN  CASE typ = "Ident" ->
                elemLoop(pNext(p), colNameFirst(colName, p.tok), columns, blockSpans)
          [] typ = "LeftDelim" ->
                Let([b \in {parseStmtBlock(p)} |->
                    IF ~b.ok THEN bad(b)
                    ELSE elemLoop(b.p, <<>>, Append(columns, Column(colName, b.e)),
                                  Append(blockSpans, <<b.start, b.end>>))])
          [] typ = "RightParen" ->
                [ok |-> TRUE, p |-> p, columns |-> columns, blockSpans |-> blockSpans, err |-> NoError]
          [] typ \in {"RightBrack", "RightBrace", "RightDelim"} -> bad(errorUnexpected(p))
          [] typ \in {"LeftParen", "LeftBrack", "LeftBrace"} ->
                Let([s \in {skipAnyBalancedText(p)} |->
                    IF ~s.ok THEN bad(s) ELSE elemLoop(s.p, colName, columns, blockSpans)])
          [] typ \in {"Error", "EOF"} -> bad(errorUnexpected(p))
          [] OTHER ->
                elemLoop(pNext(p), IF isIdent(p.tok) THEN colNameFirst(colName, p.tok) ELSE colName,
                         columns, blockSpans)])

\* optLoop of parseSingleTable: [ok, p, tableEnd, err]
RECURSIVE optLoop(_)
optLoop(p) ==
    Let([typ \in {p.tok.typ} |->
        CASE typ \in {"LeftParen", "LeftBrack", "LeftBrace"} ->
                Let([s \in {skipAnyBalancedText(p)} |->
                    IF ~s.ok THEN [ok |-> FALSE, p |-> s.p, tableEnd |-> 0, err |-> s.err]
                    ELSE optLoop(s.p)])
          [] typ = "Semicolon" ->
                [ok |-> TRUE, p |-> pNext(p), tableEnd |-> p.tok.pos + Len(p.tok.val), err |-> NoError]
          [] typ = "EOF" -> [ok |-> TRUE, p |-> p, tableEnd |-> p.tok.pos, err |-> NoError]
          [] typ = "Error" -> [ok |-> FALSE, p |-> p, tableEnd |-> 0, err |-> errorUnexpected(p).err]
          [] OTHER -> optLoop(pNext(p))])

\* Parser.parseSingleTable: [ok, p, table, panic, err]
parseSingleTable(p) ==
    Let([tableStart \in {p.tok.pos} |->
        LET bad(r) == [ok |-> FALSE, p |-> r.p, table |-> NilTable, panic |-> FALSE, err |-> r.err]
        IN Let([c1 \in {expect(p, "Create")} |->
        IF ~c1.ok THEN bad(c1) ELSE
        Let([c2 \in {expect(c1.p, "Table")} |->
            IF ~c2.ok THEN bad(c2) ELSE
        Let([q \in {parseQName(c2.p)} |->
            IF ~q.ok THEN bad(q) ELSE
        Let([c3 \in {expect(q.p, "LeftParen")} |->
            IF ~c3.ok THEN bad(c3) ELSE
        Let([el \in {elemLoop(c3.p, <<>>, <<>>, <<>>)} |->
            IF ~el.ok THEN bad(el) ELSE
        Let([c4 \in {expect(el.p, "RightParen")} |->
            IF ~c4.ok THEN bad(c4) ELSE
        Let([o \in {optLoop(c4.p)} |->
            IF ~o.ok THEN bad(o) ELSE
        Let([content \in {extractTableContent(p.input, tableStart, o.tableEnd, el.blockSpans)} |->
            [ok |-> TRUE, p |-> o.p, table |-> Table(q.qn, content.s, el.columns),
             panic |-> content.panic, err |-> NoError]])])])])])])])])])

\* expect each of the token types in turn: [ok, p, err]
RECURSIVE expectAll(_, _)
expectAll(p, typs) ==
    IF typs = <<>> THEN [ok |-> TRUE, p |-> p, err |-> NoError]
    ELSE Let([c \in {expect(p, Head(typs))} |->
             IF ~c.ok THEN pFail(c) ELSE expectAll(c.p, Tail(typs))])

\* Parser.parseDependencyDeriveBlock: [ok, p, parent, child, count, err]
parseDependencyDeriveBlock(p) ==
    Let([lDelim \in {p.tok.val} |->
        LET bad(r) == [ok |-> FALSE, p |-> r.p, parent |-> <<>>, child |-> <<>>, count |-> NilExpr, err |-> r.err]
        IN Let([c1 \in {expectAll(p, <<"LeftDelim", "For", "Each", "Row", "Of">>)} |->
        IF ~c1.ok THEN bad(c1) ELSE
        Let([parent \in {parseQName(c1.p)} |->
            IF ~parent.ok THEN bad(parent) ELSE
        Let([c2 \in {expect(parent.p, "Generate")} |->
            IF ~c2.ok THEN bad(c2) ELSE
        Let([expr \in {parseExpr(c2.p)} |->
            IF ~expr.ok THEN bad(expr) ELSE
        IF expr.p.tok.typ \notin {"Row", "Rows"} THEN bad(errorExpected(expr.p, "ROW or ROWS")) ELSE
        Let([c3 \in {expect(pNext(expr.p), "Of")} |->
            IF ~c3.ok THEN bad(c3) ELSE
        Let([child \in {parseQName(c3.p)} |->
            IF ~child.ok THEN bad(child) ELSE
        Let([rDelim \in {child.p.tok.val} |->
            IF lDelim = leftDelim /\ rDelim # rightDelim THEN bad(errorExpected(child.p, "}}"))
            ELSE IF lDelim = leftCommentedDelim /\ rDelim # rightCommentedDelim
            THEN bad(errorExpected(child.p, "}}*/"))
            ELSE Let([c4 \in {expect(child.p, "RightDelim")} |->
                     IF ~c4.ok THEN bad(c4)
                     ELSE [ok |-> TRUE, p |-> c4.p, parent |-> parent.qn, child |-> child.qn,
                           count |-> expr.e, err |-> NoError]])])])])])])])])])

\* a Template
Template(globalExprs, tables) == [GlobalExprs |-> globalExprs, Tables |-> tables]

NilTemplate == Template(<<>>, <<>>)

\* a faulty search: the position of the last table named name, or 0
FindTableLast(tables, name) ==
    Let([hits \in {{i \in DOMAIN tables : QNameEqual(tables[i].Name, name)}} |->
        IF hits = {} THEN 0 ELSE SetMax(hits)])

\* lo.Find: the 1-based position of the first table named name, or 0
FindTable(tables, name) ==
    Let([hits \in {{i \in DOMAIN tables : QNameEqual(tables[i].Name, name)}} |->
        IF hits = {} THEN 0 ELSE SetMin(hits)])

\* a faulty index: the position of the last table already present
derivedIndexOfLast(tables) == Len(tables) - 1

\* index := len(tmpl.Tables): the position the derived table is appended at
derivedIndex(tables) == Len(tables)

\* the loop of Parser.parseTemplate: [ok, p, tmpl, panic, err]
RECURSIVE parseTemplateLoop(_, _, _)
parseTemplateLoop(p, tmpl, panic) ==
    LET bad(r) == [ok |-> FALSE, p |-> r.p, tmpl |-> NilTemplate, panic |-> panic, err |-> r.err]
    IN  IF p.tok.typ = "EOF" THEN [ok |-> TRUE, p |-> p, tmpl |-> tmpl, panic |-> panic, err |-> NoError]
        ELSE IF p.tok.typ # "LeftDelim" THEN bad(errorUnexpected(p))
        ELSE Let([d \in {parseDependencyDeriveBlock(p)} |->
                 IF ~d.ok THEN bad(d) ELSE
             Let([t \in {parseSingleTable(d.p)} |->
                 IF ~t.ok THEN bad(t) ELSE
             IF ~QNameEqual(t.table.Name, d.child)
             THEN bad(pErr(t.p, <<"derived table names do not match">>)) ELSE
             Let([parent \in {FindTable(tmpl.Tables, d.parent)} |->
                 IF parent = 0 THEN bad(pErr(t.p, <<"cannot find parent table">>))
                 ELSE parseTemplateLoop(t.p,
                          [tmpl EXCEPT !.Tables =
                              Append([@ EXCEPT ![parent].Derived =
                                         Append(@, [index |-> derivedIndex(tmpl.Tables), count |-> d.count])],
                                     t.table)],
                          panic \/ t.panic)])])])

parseTemplate(p) ==
    LET bad(r) == [ok |-> FALSE, p |-> r.p, tmpl |-> NilTemplate, panic |-> FALSE, err |-> r.err]
        IN Let([stmts \in {parseStmtBlockList(p, <<>>)} |->
        IF ~stmts.ok THEN bad(stmts) ELSE
        Let([t \in {parseSingleTable(stmts.p)} |->
            IF ~t.ok THEN bad(t)
            ELSE parseTemplateLoop(t.p, Template(stmts.list, <<t.table>>), t.panic)])])

\* Parser.Parse: "ok" with the template, "error" with the SyntaxError, or "panic"
Parse(input) ==
    Let([r \in {parseTemplate(pInit(input))} |->
        IF r.p.panicked \/ r.panic THEN [st |-> "panic", tmpl |-> NilTemplate, err |-> NoError]
        ELSE IF r.ok THEN [st |-> "ok", tmpl |-> r.tmpl, err |-> NoError]
        ELSE [st |-> "error", tmpl |-> NilTemplate, err |-> r.err]])

----------------------------------------------------------------------------
(* Operations on values (package constant) *)

\* the outcome of an operation: st is "ok" with the value v, "error",
\* "panic" (a nil dereference), or "unspecified" where the result of a Go
\* conversion is implementation-specific (a float out of the integer range)
VOk(v) == [st |-> "ok", v |-> v]

VErr == [st |-> "error", v |-> NilValue]

VPanic == [st |-> "panic", v |-> NilValue]

VUnspecified == [st |-> "unspecified", v |-> NilValue]

Sgn(n) == IF n < 0 THEN -1 ELSE IF n > 0 THEN 1 ELSE 0

\* Go's integer division and remainder truncate toward zero
TruncDiv(a, b) == Sgn(a) * Sgn(b) * (Abs(a) \div Abs(b))

TruncRem(a, b) == a - b * TruncDiv(a, b)

\* big.Int.Div and big.Int.Mod are Euclidean: 0 <= m < |b|
EuclidMod(a, b) == a % Abs(b)

EuclidDiv(a, b) == (a - EuclidMod(a, b)) \div b

\* int64 division: the quotient MinInt64 / -1 wraps around
Int64Div(a, b) == Wrap64(TruncDiv(a, b))

IsInt64(v) == v.kind = "Int" /\ (~v.big \/ FitsInt64(v.n))

\* AsFloat of an Int or a Float
AsFloat(v) == IF v.kind = "Float" THEN v ELSE MakeFloat(v.n, 1)

IsNaN(f) == f.d = 0 /\ f.n = 0

FloatAdd(x, y) ==
    IF x.d = 0 /\ y.d = 0 THEN (IF x.n = y.n THEN x ELSE MakeFloat(0, 0))
    ELSE MakeFloat(x.n * y.d + y.n * x.d, x.d * y.d)

FloatNeg(x) == MakeFloat(-x.n, x.d)

FloatSub(x, y) == FloatAdd(x, FloatNeg(y))

FloatMul(x, y) == MakeFloat(x.n * y.n, x.d * y.d)

FloatQuo(x, y) == MakeFloat(x.n * y.d, x.d * y.n)

\* math.Mod: the result has the sign of x and a magnitude below |y|
FloatMod(x, y) ==
    IF x.d = 0 \/ (y.d = 0 /\ y.n = 0) \/ (y.d # 0 /\ y.n = 0) THEN MakeFloat(0, 0)
    ELSE IF y.d = 0 THEN x
    ELSE Let([q \in {TruncDiv(x.n * y.d, x.d * y.n)} |->
             FloatSub(x, FloatMul(MakeFloat(q, 1), y))])

\* numberCmp on floats; an unordered pair compares as 0
FloatCmp(x, y) ==
    IF IsNaN(x) \/ IsNaN(y) THEN 0
    ELSE IF x.d = 0 /\ y.d = 0 THEN Sgn(x.n - y.n)
    ELSE IF x.d = 0 THEN x.n
    ELSE IF y.d = 0 THEN -y.n
    ELSE Sgn(x.n * y.d - y.n * x.d)

\* the conversion time.Duration(f) of a float
FloatToDuration(f) ==
    IF f.d = 0 \/ ~FitsInt64(TruncDiv(f.n, f.d)) THEN VUnspecified
    ELSE VOk(MakeInterval(TruncDiv(f.n, f.d)))

\* the 256 byte values as one-character strings, in order
ByteChars ==
    <<
       "<x00>", "<x01>", "<x02>", "<x03>", "<x04>", "<x05>", "<x06>", "<x07>",
       "<x08>", "\t", "\n", "<x0b>", "<x0c>", "\r", "<x0e>", "<x0f>",
       "<x10>", "<x11>", "<x12>", "<x13>", "<x14>", "<x15>", "<x16>", "<x17>",
       "<x18>", "<x19>", "<x1a>", "<x1b>", "<x1c>", "<x1d>", "<x1e>", "<x1f>",
       " ", "!", "\"", "#", "$", "%", "&", "'",
       "(", ")", "*", "+", ",", "-", ".", "/",
       "0", "1", "2", "3", "4", "5", "6", "7",
       "8", "9", ":", ";", "<", "=", ">", "?",
       "@", "A", "B", "C", "D", "E", "F", "G",
       "H", "I", "J", "K", "L", "M", "N", "O",
       "P", "Q", "R", "S", "T", "U", "V", "W",
       "X", "Y", "Z", "[", "\\", "]", "^", "_",
       BackQuote, "a", "b", "c", "d", "e", "f", "g",
       "h", "i", "j", "k", "l", "m", "n", "o",
       "p", "q", "r", "s", "t", "u", "v", "w",
       "x", "y", "z", "{", "|", "}", "~", "<x7f>",
       "<x80>", "<x81>", "<x82>", "<x83>", "<x84>", "<x85>", "<x86>", "<x87>",
       "<x88>", "<x89>", "<x8a>", "<x8b>", "<x8c>", "<x8d>", "<x8e>", "<x8f>",
       "<x90>", "<x91>", "<x92>", "<x93>", "<x94>", "<x95>", "<x96>", "<x97>",
       "<x98>", "<x99>", "<x9a>", "<x9b>", "<x9c>", "<x9d>", "<x9e>", "<x9f>",
       "<xa0>", "<xa1>", "<xa2>", "<xa3>", "<xa4>", "<xa5>", "<xa6>", "<xa7>",
       "<xa8>", "<xa9>", "<xaa>", "<xab>", "<xac>", "<xad>", "<xae>", "<xaf>",
       "<xb0>", "<xb1>", "<xb2>", "<xb3>", "<xb4>", "<xb5>", "<xb6>", "<xb7>",
       "<xb8>", "<xb9>", "<xba>", "<xbb>", "<xbc>", "<xbd>", "<xbe>", "<xbf>",
       "<xc0>", "<xc1>", "<xc2>", "<xc3>", "<xc4>", "<xc5>", "<xc6>", "<xc7>",
       "<xc8>", "<xc9>", "<xca>", "<xcb>", "<xcc>", "<xcd>", "<xce>", "<xcf>",
       "<xd0>", "<xd1>", "<xd2>", "<xd3>", "<xd4>", "<xd5>", "<xd6>", "<xd7>",
       "<xd8>", "<xd9>", "<xda>", "<xdb>", "<xdc>", "<xdd>", "<xde>", "<xdf>",
       "<xe0>", "<xe1>", "<xe2>", "<xe3>", "<xe4>", "<xe5>", "<xe6>", "<xe7>",
       "<xe8>", "<xe9>", "<xea>", "<xeb>", "<xec>", "<xed>", "<xee>", "<xef>",
       "<xf0>", "<xf1>", "<xf2>", "<xf3>", "<xf4>", "<xf5>", "<xf6>", "<xf7>",
       "<xf8>", "<xf9>", "<xfa>", "<xfb>", "<xfc>", "<xfd>", "<xfe>", "<xff>"
    >>

\* the numeric value of a byte
Ord(c) == (CHOOSE i \in DOMAIN ByteChars : ByteChars[i] = c) - 1

Chr(n) == ByteChars[n + 1]

\* bytes.Compare
RECURSIVE BytesCompare(_, _)
BytesCompare(a, b) ==
    IF a = <<>> /\ b = <<>> THEN 0
    ELSE IF a = <<>> THEN -1
    ELSE IF b = <<>> THEN 1
    ELSE IF Head(a) # Head(b) THEN Sgn(Ord(Head(a)) - Ord(Head(b)))
    ELSE BytesCompare(Tail(a), Tail(b))

\* infinite-precision two's complement And, Or, Xor (big.Int and int64 agree)
RECURSIVE BitOp(_, _, _)
BitOp(op, x, y) ==
    IF x \in {0, -1} /\ y \in {0, -1}
    THEN CASE op = "BitAnd" -> IF x = -1 /\ y = -1 THEN -1 ELSE 0
           [] op = "BitOr" -> IF x = -1 \/ y = -1 THEN -1 ELSE 0
           [] op = "BitXor" -> IF x # y THEN -1 ELSE 0
    ELSE Let([bx \in {x % 2} |->
             Let([by \in {y % 2} |->
             Let([bit \in {CASE op = "BitAnd" -> IF bx = 1 /\ by = 1 THEN 1 ELSE 0
                             [] op = "BitOr" -> IF bx = 1 \/ by = 1 THEN 1 ELSE 0
                             [] op = "BitXor" -> IF bx # by THEN 1 ELSE 0} |->
             2 * BitOp(op, x \div 2, y \div 2) + bit])])])

Sign(v) ==
    CASE v.kind \in {"Int", "Interval"} -> Sgn(v.n)
      [] v.kind = "Float" -> FloatCmp(v, MakeFloat(0, 1))
      [] OTHER -> 1

\* Cmp: [st, cmp, isNull]
COk(c) == [st |-> "ok", cmp |-> c, isNull |-> FALSE]

CNull == [st |-> "ok", cmp |-> 0, isNull |-> TRUE]

CErr == [st |-> "error", cmp |-> 0, isNull |-> FALSE]

CPanic == [st |-> "panic", cmp |-> 0, isNull |-> FALSE]

RECURSIVE Cmp(_, _), CmpArrays(_, _, _)
Cmp(a, b) ==
    IF a.kind = "Null" \/ b.kind = "Null" THEN CNull
    ELSE CASE a.kind = "Bool" -> IF b.kind # "Bool" THEN CErr ELSE COk(Sgn(a.n - b.n))
           [] a.kind = "Bytes" -> IF b.kind # "Bytes" THEN CErr ELSE COk(BytesCompare(a.b, b.b))
           [] a.kind = "Int" /\ a.big ->
                 IF b.kind = "nil" THEN CPanic
                 ELSE IF b.kind = "Int" THEN COk(Sgn(a.n - b.n))
                 ELSE IF b.kind = "Float" THEN COk(FloatCmp(AsFloat(a), b))
                 ELSE CErr
           [] a.kind = "Int" /\ ~a.big ->
                 IF IsInt64(b) THEN COk(Sgn(a.n - b.n))
                 ELSE IF b.kind = "nil" THEN CPanic
                 ELSE IF b.kind = "Int" THEN COk(Sgn(a.n - b.n))
                 ELSE IF b.kind = "Float" THEN COk(FloatCmp(AsFloat(a), b))
                 ELSE CErr
           [] a.kind = "Float" ->
                 IF b.kind \notin {"Int", "Float"} THEN CErr ELSE COk(FloatCmp(a, AsFloat(b)))
           [] a.kind = "Timestamp" -> IF b.kind # "Timestamp" THEN CErr ELSE COk(Sgn(a.n - b.n))
           [] a.kind = "Interval" -> IF b.kind # "Interval" THEN CErr ELSE COk(Sgn(a.n - b.n))
           [] a.kind = "Array" -> IF b.kind # "Array" THEN CErr ELSE CmpArrays(a.a, b.a, 1)
           [] OTHER -> CErr

\* the element loop of Cmp on arrays, from the (1-based) position i
CmpArrays(x, y, i) ==
    IF i > Len(x) \/ i > Len(y) THEN COk(Sgn(Len(x) - Len(y)))
    ELSE Let([r \in {Cmp(x[i], y[i])} |->
             IF r.st # "ok" \/ r.isNull THEN r
             ELSE IF r.cmp # 0 THEN COk(r.cmp)
             ELSE CmpArrays(x, y, i + 1)])

Add(a, b) ==
    IF a.kind = "Null" \/ b.kind = "Null" THEN VOk(Null)
    ELSE CASE a.kind = "Int" /\ a.big ->
                 IF b.kind = "nil" THEN VPanic
                 ELSE IF b.kind = "Int" THEN VOk(bigIntVal(a.n + b.n))
                 ELSE IF b.kind = "Float" THEN VOk(FloatAdd(AsFloat(a), b))
                 ELSE VErr
           [] a.kind = "Int" /\ ~a.big ->
                 Let([sum \in {Wrap64(a.n + b.n)} |->
                     IF IsInt64(b) /\ ((sum > a.n) = (b.n > 0)) THEN VOk(MakeInt64(sum))
                     ELSE IF b.kind = "nil" THEN VPanic
                     ELSE IF b.kind = "Int" THEN VOk(bigIntVal(a.n + b.n))
                     ELSE IF b.kind = "Float" THEN VOk(FloatAdd(AsFloat(a), b))
                     ELSE VErr])
           [] a.kind = "Float" ->
                 IF b.kind \notin {"Int", "Float"} THEN VErr ELSE VOk(FloatAdd(a, AsFloat(b)))
           [] a.kind = "Timestamp" ->
                 IF b.kind # "Interval" THEN VErr ELSE VOk(MakeTimestamp(a.n + b.n))
           [] a.kind = "Interval" ->
                 IF b.kind = "Timestamp" THEN VOk(MakeTimestamp(b.n + a.n))
                 ELSE IF b.kind # "Interval" THEN VErr
                 ELSE VOk(MakeInterval(Wrap64(a.n + b.n)))
           [] OTHER -> VErr

Sub(a, b) ==
    IF a.kind = "Null" \/ b.kind = "Null" THEN VOk(Null)
    ELSE CASE a.kind = "Int" /\ a.big ->
                 IF b.kind = "nil" THEN VPanic
                 ELSE IF b.kind = "Int" THEN VOk(bigIntVal(a.n - b.n))
                 ELSE IF b.kind = "Float" THEN VOk(FloatSub(AsFloat(a), b))
                 ELSE VErr
           [] a.kind = "Int" /\ ~a.big ->
                 Let([sum \in {Wrap64(a.n + b.n)} |->
                     IF IsInt64(b) /\ ((sum > a.n) = (b.n < 0)) THEN VOk(MakeInt64(sum))
                     ELSE IF b.kind = "nil" THEN VPanic
                     ELSE IF b.kind = "Int" THEN VOk(bigIntVal(a.n - b.n))
                     ELSE IF b.kind = "Float" THEN VOk(FloatSub(AsFloat(a), b))
                     ELSE VErr])
           [] a.kind = "Float" ->
                 IF b.kind \notin {"Int", "Float"} THEN VErr ELSE VOk(FloatSub(a, AsFloat(b)))
           [] a.kind = "Timestamp" ->
                 IF b.kind # "Interval" THEN VErr ELSE VOk(MakeTimestamp(a.n + Wrap64(-b.n)))
           [] a.kind = "Interval" ->
                 IF b.kind = "Timestamp" THEN VOk(MakeTimestamp(b.n + Wrap64(-a.n)))
                 ELSE IF b.kind # "Interval" THEN VErr
                 ELSE VOk(MakeInterval(Wrap64(a.n - b.n)))
           [] OTHER -> VErr

Mul(a, b) ==
    IF a.kind = "Null" \/ b.kind = "Null" THEN VOk(Null)
    ELSE CASE a.kind = "Int" /\ a.big ->
                 IF b.kind = "nil" THEN VPanic
                 ELSE IF b.kind = "Int" THEN VOk(bigIntVal(a.n * b.n))
                 ELSE IF b.kind = "Float" THEN VOk(FloatMul(AsFloat(a), b))
                 ELSE IF b.kind = "Interval" THEN VOk(MakeInterval(Wrap64(a.n * b.n)))
                 ELSE VErr
           [] a.kind = "Int" /\ ~a.big ->
                 Let([prod \in {Wrap64(a.n * b.n)} |->
                     IF IsInt64(b) /\ (a.n = 0 \/ b.n = 0 \/ a.n = 1 \/ b.n = 1
                                       \/ Int64Div(prod, a.n) = b.n)
                     THEN VOk(MakeInt64(prod))
                     ELSE IF b.kind = "nil" THEN VPanic
                     ELSE IF b.kind = "Int" THEN VOk(bigIntVal(a.n * b.n))
                     ELSE IF b.kind = "Float" THEN VOk(FloatMul(AsFloat(a), b))
                     ELSE IF b.kind = "Interval" THEN VOk(MakeInterval(Wrap64(a.n * b.n)))
                     ELSE VErr])
           [] a.kind = "Float" ->
                 IF b.kind = "nil" THEN VPanic
                 ELSE IF b.kind = "Interval" THEN FloatToDuration(FloatMul(a, MakeFloat(b.n, 1)))
                 ELSE IF b.kind \notin {"Int", "Float"} THEN VErr
                 ELSE VOk(FloatMul(a, AsFloat(b)))
           [] a.kind = "Interval" ->
                 IF b.kind = "nil" THEN VPanic
                 ELSE IF b.kind = "Int" THEN
                     Let([prod \in {Wrap64(a.n * b.n)} |->
                         IF a.n = 0 THEN VOk(MakeInterval(0))
                         ELSE IF IsInt64(b) /\ (b.n = 0 \/ a.n = 1 \/ b.n = 1
                                                \/ Int64Div(prod, a.n) = b.n)
                         THEN VOk(MakeInterval(prod))
                         ELSE VErr])
                 ELSE IF b.kind = "Float" THEN FloatToDuration(FloatMul(MakeFloat(a.n, 1), b))
                 ELSE VErr
           [] OTHER -> VErr

Div(a, b) ==
    IF a.kind = "Null" \/ b.kind = "Null" THEN VOk(Null)
    ELSE CASE a.kind = "Int" /\ a.big ->
                 IF b.kind = "nil" THEN VPanic
                 ELSE IF b.kind = "Int"
                 THEN (IF b.n = 0 THEN VErr ELSE VOk(bigIntVal(EuclidDiv(a.n, b.n))))
                 ELSE IF b.kind = "Float"
                 THEN (IF b.d # 0 /\ b.n = 0 THEN VErr ELSE VOk(FloatQuo(AsFloat(a), b)))
                 ELSE VErr
           [] a.kind = "Int" /\ ~a.big ->
                 IF IsInt64(b)
                 THEN (IF b.n = 0 THEN VErr ELSE VOk(MakeInt64(Int64Div(a.n, b.n))))
                 ELSE IF b.kind = "nil" THEN VPanic
                 ELSE IF b.kind = "Int" THEN VOk(bigIntVal(EuclidDiv(a.n, b.n)))
                 ELSE IF b.kind = "Float" THEN VOk(FloatQuo(AsFloat(a), b))
                 ELSE VErr
           [] a.kind = "Float" ->
                 IF b.kind \notin {"Int", "Float"} THEN VErr
                 ELSE IF AsFloat(b).d # 0 /\ AsFloat(b).n = 0 THEN VErr
                 ELSE VOk(FloatQuo(a, AsFloat(b)))
           [] OTHER -> VErr

FloatDiv(a, b) ==
    IF a.kind = "Null" \/ b.kind = "Null" THEN VOk(Null)
    ELSE IF a.kind = "nil" THEN VPanic
    ELSE IF a.kind \in {"Int", "Float"}
    THEN (IF b.kind \notin {"Int", "Float"} THEN VErr
          ELSE IF AsFloat(b).d # 0 /\ AsFloat(b).n = 0 THEN VErr
          ELSE VOk(FloatQuo(AsFloat(a), AsFloat(b))))
    ELSE IF a.kind = "Interval"
    THEN (IF b.kind \notin {"Int", "Float"} THEN VErr
          ELSE IF AsFloat(b).d # 0 /\ AsFloat(b).n = 0 THEN VErr
          ELSE FloatToDuration(FloatQuo(MakeFloat(a.n, 1), AsFloat(b))))
    ELSE VErr

Mod(a, b) ==
    IF a.kind = "Null" \/ b.kind = "Null" THEN VOk(Null)
    ELSE CASE a.kind = "Int" /\ a.big ->
                 IF b.kind = "nil" THEN VPanic
                 ELSE IF b.kind = "Int"
                 THEN (IF b.n = 0 THEN VErr ELSE VOk(bigIntVal(EuclidMod(a.n, b.n))))
                 ELSE IF b.kind = "Float"
                 THEN (IF b.d # 0 /\ b.n = 0 THEN VErr ELSE VOk(FloatMod(AsFloat(a), b)))
                 ELSE VErr
           [] a.kind = "Int" /\ ~a.big ->
                 IF IsInt64(b)
                 THEN (IF b.n = 0 THEN VErr ELSE VOk(MakeInt64(TruncRem(a.n, b.n))))
                 ELSE IF b.kind = "nil" THEN VPanic
                 ELSE IF b.kind = "Int" THEN VOk(bigIntVal(EuclidMod(a.n, b.n)))
                 ELSE IF b.kind = "Float" THEN VOk(FloatMod(AsFloat(a), b))
                 ELSE VErr
           [] a.kind = "Float" ->
                 IF b.kind \notin {"Int", "Float"} THEN VErr
                 ELSE IF AsFloat(b).d # 0 /\ AsFloat(b).n = 0 THEN VErr
                 ELSE VOk(FloatMod(a, AsFloat(b)))
           [] OTHER -> VErr

Neg(a) ==
    CASE a.kind = "Null" -> VOk(Null)
      [] a.kind = "Int" /\ a.big -> VOk(bigIntVal(-a.n))
      [] a.kind = "Int" /\ ~a.big ->
            IF a.n = MinInt64 THEN VOk(bigIntVal(MaxInt64 + 1)) ELSE VOk(MakeInt64(-a.n))
      [] a.kind = "Float" -> VOk(FloatNeg(a))
      [] a.kind = "Interval" -> VOk(MakeInterval(Wrap64(-a.n)))
      [] OTHER -> VErr

----------------------------------------------------------------------------
(* Library calls of the functions: encodings and time parsing *)

\* hex.Encode
HexEncode(s) ==
    Flatten([i \in DOMAIN s |-> <<DigitChars[(Ord(s[i]) \div 16) + 1], DigitChars[(Ord(s[i]) % 16) + 1]>>])

\* hex.Decode: [ok, b]
HexDecode(s) ==
    IF Len(s) % 2 # 0 \/ ~AllIn(s, isHexDigit) THEN [ok |-> FALSE, b |-> <<>>]
    ELSE [ok |-> TRUE,
          b |-> [i \in 1 .. (Len(s) \div 2) |-> Chr(16 * DigitVal(s[2 * i - 1]) + DigitVal(s[2 * i]))]]

\* the alphabet of base64.StdEncoding
Base64Chars ==
    <<"A", "B", "C", "D", "E", "F", "G", "H", "I", "J", "K", "L", "M", "N", "O", "P",
      "Q", "R", "S", "T", "U", "V", "W", "X", "Y", "Z", "a", "b", "c", "d", "e", "f",
      "g", "h", "i", "j", "k", "l", "m", "n", "o", "p", "q", "r", "s", "t", "u", "v",
      "w", "x", "y", "z", "0", "1", "2", "3", "4", "5", "6", "7", "8", "9", "+", "/">>

IsBase64Char(c) == \E i \in DOMAIN Base64Chars : Base64Chars[i] = c

Base64Val(c) == (CHOOSE i \in DOMAIN Base64Chars : Base64Chars[i] = c) - 1

\* base64.StdEncoding.Encode
RECURSIVE Base64Encode(_)
Base64Encode(s) ==
    LET e(n) == Base64Chars[n + 1]
        b(i) == Ord(s[i])
    IN  IF s = <<>> THEN <<>>
        ELSE IF Len(s) = 1
        THEN <<e(b(1) \div 4), e((b(1) % 4) * 16), "=", "=">>
        ELSE IF Len(s) = 2
        THEN <<e(b(1) \div 4), e((b(1) % 4) * 16 + b(2) \div 16), e((b(2) % 16) * 4), "=">>
        ELSE <<e(b(1) \div 4), e((b(1) % 4) * 16 + b(2) \div 16),
               e((b(2) % 16) * 4 + b(3) \div 64), e(b(3) % 64)>>
             \o Base64Encode(SubSeq(s, 4, Len(s)))

\* base64.StdEncoding.Decode, on the text without its CR and LF: [ok, b]
RECURSIVE Base64DecodeQuads(_)
Base64DecodeQuads(s) ==
    LET (* each is evaluated only where it is used *)
        v(i) == Base64Val(s[i])
        b1 == Chr(v(1) * 4 + v(2) \div 16)
        b2 == Chr((v(2) % 16) * 16 + v(3) \div 4)
        b3 == Chr((v(3) % 4) * 64 + v(4))
        rest == Base64DecodeQuads(SubSeq(s, 5, Len(s)))
    IN  IF s = <<>> THEN [ok |-> TRUE, b |-> <<>>]
        ELSE IF Len(s) < 4 \/ ~IsBase64Char(s[1]) \/ ~IsBase64Char(s[2]) THEN [ok |-> FALSE, b |-> <<>>]
        ELSE IF Len(s) = 4 /\ s[3] = "=" /\ s[4] = "=" THEN [ok |-> TRUE, b |-> <<b1>>]
        ELSE IF ~IsBase64Char(s[3]) THEN [ok |-> FALSE, b |-> <<>>]
        ELSE IF Len(s) = 4 /\ s[4] = "=" THEN [ok |-> TRUE, b |-> <<b1, b2>>]
        ELSE IF ~IsBase64Char(s[4]) \/ ~rest.ok THEN [ok |-> FALSE, b |-> <<>>]
        ELSE [ok |-> TRUE, b |-> <<b1, b2, b3>> \o rest.b]

Base64Decode(s) == Base64DecodeQuads(SelectSeq(s, LAMBDA c : c \notin {"\r", "\n"}))

\* The durations of the interval units, in ticks.  One tick is the smallest
\* unit; the units are scaled down with the word size, a power of two apart.
IntervalUnitMicrosecond == 1

IntervalUnitMillisecond == 2

IntervalUnitSecond == 4

IntervalUnitMinute == 8

IntervalUnitHour == 16

IntervalUnitDay == 32

IntervalUnitWeek == 64

\* time.Duration(expr.Unit)
UnitDuration(u) ==
    CASE u = "Microsecond" -> IntervalUnitMicrosecond
      [] u = "Millisecond" -> IntervalUnitMillisecond
      [] u = "Second" -> IntervalUnitSecond
      [] u = "Minute" -> IntervalUnitMinute
      [] u = "Hour" -> IntervalUnitHour
      [] u = "Day" -> IntervalUnitDay
      [] u = "Week" -> IntervalUnitWeek

TrimSpace(s) ==
    Let([keep \in {{i \in DOMAIN s : ~isWhitespace(s[i])}} |->
        IF keep = {} THEN <<>> ELSE SubSeq(s, SetMin(keep), SetMax(keep))])

IsLeap(y) == (y % 4 = 0 /\ y % 100 # 0) \/ y % 400 = 0

DaysIn(m, y) ==
    CASE m = 2 -> IF IsLeap(y) THEN 29 ELSE 28
      [] m \in {4, 6, 9, 11} -> 30
      [] OTHER -> 31

RECURSIVE DaysBeforeMonth(_, _)
DaysBeforeMonth(m, y) == IF m <= 1 THEN 0 ELSE DaysIn(m - 1, y) + DaysBeforeMonth(m - 1, y)

\* days from 2000-01-01 to the first day of year y
DaysBeforeYear(y) ==
    LET leaps(z) == (z \div 4) - (z \div 100) + (z \div 400)
    IN  365 * (y - 2000) + leaps(y - 1) - leaps(1999)

\* time.ParseInLocation with the layout "2006-01-02 15:04:05.999" in UTC:
\* [ok, t], t the instant in ticks since 2000-01-01 00:00:00
ParseTimestamp(s) ==
    LET (* each is evaluated only where it is used *)
        num(a, b) == ParseBase(SubSeq(s, a, b), 10, 0)
        digitsAt(a, b) == \A i \in a .. b : isDigit(s[i])
        shape == /\ Len(s) >= 19
                 /\ digitsAt(1, 4) /\ s[5] = "-" /\ digitsAt(6, 7) /\ s[8] = "-" /\ digitsAt(9, 10)
                 /\ s[11] = " " /\ digitsAt(12, 13) /\ s[14] = ":" /\ digitsAt(15, 16)
                 /\ s[17] = ":" /\ digitsAt(18, 19)
                 /\ (Len(s) > 19 => (Len(s) > 20 /\ s[20] \in {".", ","} /\ digitsAt(21, Len(s))))
        y == num(1, 4)
        mo == num(6, 7)
        d == num(9, 10)
        h == num(12, 13)
        mi == num(15, 16)
        sec == num(18, 19)
        frac == IF Len(s) > 20 THEN MakeFloat(num(21, Len(s)), Pow(10, Len(s) - 20)) ELSE MakeFloat(0, 1)
        days == DaysBeforeYear(y) + DaysBeforeMonth(mo, y) + (d - 1)
        secs == ((days * 24 + h) * 60 + mi) * 60 + sec
    IN  IF ~shape THEN [ok |-> FALSE, t |-> 0]
        ELSE IF mo < 1 \/ mo > 12 \/ d < 1 \/ d > DaysIn(mo, y) \/ h > 23 \/ mi > 59 \/ sec > 59
        THEN [ok |-> FALSE, t |-> 0]
        ELSE [ok |-> TRUE,
              t |-> secs * IntervalUnitSecond + ((frac.n * IntervalUnitSecond) \div frac.d)]

\* CompileContext.ParseTimeZone: the zones the context can load
KnownZones == {<<"U", "T", "C">>}

----------------------------------------------------------------------------
(* Functions *)

\* a Function: its Go type f and the value a of its field (Op, Encoding, Unit
\* or the result flags of a CompareFunc)
Fn(f, a) == [f |-> f, a |-> a]

NoFn == Fn("", "")

\* GenericFuncs: unique name, function
GenericFuncs ==
    <<
       <<<<"g", "e", "n", "e", "r", "a", "t", "e", "_", "s", "e", "r", "i", "e", "s">>,
         Fn("GenerateSeriesFunc", "")>>,
       <<<<"e", "n", "c", "o", "d", "e", ".", "h", "e", "x">>,
         Fn("EncodeFunc", "Hex")>>,
       <<<<"e", "n", "c", "o", "d", "e", ".", "b", "a", "s", "e", "6", "4">>,
         Fn("EncodeFunc", "Base64")>>,
       <<<<"d", "e", "c", "o", "d", "e", ".", "h", "e", "x">>,
         Fn("DecodeFunc", "Hex")>>,
       <<<<"d", "e", "c", "o", "d", "e", ".", "b", "a", "s", "e", "6", "4">>,
         Fn("DecodeFunc", "Base64")>>,
       <<<<"d", "e", "b", "u", "g", ".", "p", "a", "n", "i", "c">>,
         Fn("PanicFunc", "")>>,
       <<<<"l", "e", "a", "s", "t">>,
         Fn("LeastFunc", "")>>,
       <<<<"g", "r", "e", "a", "t", "e", "s", "t">>,
         Fn("GreatestFunc", "")>>,
       <<<<"r", "o", "u", "n", "d">>,
         Fn("RoundFunc", "")>>,
       <<<<"d", "i", "v">>,
         Fn("ArithFunc", "Div")>>,
       <<<<"m", "o", "d">>,
         Fn("ArithFunc", "Mod")>>,
       <<<<"c", "o", "a", "l", "e", "s", "c", "e">>,
         Fn("CoalesceFunc", "")>>,
       <<<<"r", "a", "n", "d", ".", "r", "a", "n", "g", "e">>,
         Fn("RandRangeFunc", "")>>,
       <<<<"r", "a", "n", "d", ".", "r", "a", "n", "g", "e", "_", "i", "n", "c", "l", "u", "s", "i", "v", "e">>,
         Fn("RandRangeInclusiveFunc", "")>>,
       <<<<"r", "a", "n", "d", ".", "u", "n", "i", "f", "o", "r", "m">>,
         Fn("RandUniformFunc", "")>>,
       <<<<"r", "a", "n", "d", ".", "u", "n", "i", "f", "o", "r", "m", "_", "i", "n", "c", "l", "u", "s", "i", "v", "e">>,
         Fn("RandUniformInclusiveFunc", "")>>,
       <<<<"r", "a", "n", "d", ".", "z", "i", "p", "f">>,
         Fn("RandZipfFunc", "")>>,
       <<<<"r", "a", "n", "d", ".", "l", "o", "g", "_", "n", "o", "r", "m", "a", "l">>,
         Fn("RandLogNormalFunc", "")>>,
       <<<<"r", "a", "n", "d", ".", "b", "o", "o", "l">>,
         Fn("RandBoolFunc", "")>>,
       <<<<"r", "a", "n", "d", ".", "f", "i", "n", "i", "t", "e", "_", "f", "3", "2">>,
         Fn("RandFiniteF32Func", "")>>,
       <<<<"r", "a", "n", "d", ".", "f", "i", "n", "i", "t", "e", "_", "f", "6", "4">>,
         Fn("RandFiniteF64Func", "")>>,
       <<<<"r", "a", "n", "d", ".", "u", "3", "1", "_", "t", "i", "m", "e", "s", "t", "a", "m", "p">>,
         Fn("RandU31TimestampFunc", "")>>,
       <<<<"r", "a", "n", "d", ".", "u", "u", "i", "d">>,
         Fn("RandUuidFunc", "")>>,
       <<<<"r", "a", "n", "d", ".", "r", "e", "g", "e", "x">>,
         Fn("RandRegexFunc", "")>>,
       <<<<"r", "a", "n", "d", ".", "s", "h", "u", "f", "f", "l", "e">>,
         Fn("RandShuffleFunc", "")>>,
       <<<<"c", "h", "a", "r", "_", "l", "e", "n", "g", "t", "h">>,
         Fn("CharLengthFunc", "")>>,
       <<<<"o", "c", "t", "e", "t", "_", "l", "e", "n", "g", "t", "h">>,
         Fn("OctetLengthFunc", "")>>
    >>

HasGenericFunc(name) == \E i \in DOMAIN GenericFuncs : GenericFuncs[i][1] = name

GenericFunc(name) == GenericFuncs[CHOOSE i \in DOMAIN GenericFuncs : GenericFuncs[i][1] = name][2]

\* UnaryFuncs
HasUnaryFunc(op) == op \in {"Sub", "Not", "IsNot", "BitNot"}

UnaryFunc(op) ==
    CASE op = "Sub" -> Fn("NegFunc", "")
      [] op = "Not" -> Fn("NotFunc", "")
      [] op = "IsNot" -> Fn("IsNotFunc", "")
      [] op = "BitNot" -> Fn("BitNotFunc", "")

\* BinaryFuncs
HasBinaryFunc(op) ==
    op \in {"LT", "LE", "EQ", "NE", "GT", "GE", "BitAnd", "BitOr", "BitXor",
            "Add", "Sub", "Mul", "FloatDiv", "Concat"}

BinaryFunc(op) ==
    CASE op \in {"LT", "LE", "EQ", "NE", "GT", "GE"} -> Fn("CompareFunc", op)
      [] op \in {"BitAnd", "BitOr", "BitXor"} -> Fn("BitwiseFunc", op)
      [] op \in {"Add", "Sub", "Mul", "FloatDiv"} -> Fn("ArithFunc", op)
      [] op = "Concat" -> Fn("ConcatFunc", "")

\* Function.NumArgs; -1 for a variable number
NumArgs(fn) ==
    CASE fn.f \in {"RandBoolFunc", "RandFiniteF32Func", "RandFiniteF64Func",
                   "RandU31TimestampFunc", "RandUuidFunc"} -> 0
      [] fn.f \in {"EncodeFunc", "DecodeFunc", "NegFunc", "IsNotFunc", "NotFunc", "BitNotFunc",
                   "RoundFunc", "RandRegexFunc", "RandShuffleFunc", "CharLengthFunc",
                   "OctetLengthFunc", "TimestampFunc", "TimestampWithTimeZoneFunc"} -> 1
      [] fn.f \in {"SubscriptFunc", "CompareFunc", "BitwiseFunc", "ArithFunc", "RandRangeFunc",
                   "RandRangeInclusiveFunc", "RandUniformFunc", "RandUniformInclusiveFunc",
                   "RandZipfFunc", "RandLogNormalFunc", "ConcatFunc"} -> 2
      [] OTHER -> -1

\* the functions whose Compile is panic("unimplemented")
Unimplemented ==
    {"IsNotFunc", "NotFunc", "BitNotFunc", "GreatestFunc", "LeastFunc", "RoundFunc",
     "CoalesceFunc", "RandRangeFunc", "RandRangeInclusiveFunc", "RandUniformFunc",
     "RandUniformInclusiveFunc", "RandZipfFunc", "RandLogNormalFunc", "RandBoolFunc",
     "RandFiniteF32Func", "RandFiniteF64Func", "RandU31TimestampFunc", "RandUuidFunc",
     "RandRegexFunc", "RandShuffleFunc", "SubstringFunc", "CharLengthFunc", "OctetLengthFunc",
     "OverlayFunc", "ConcatFunc"}

----------------------------------------------------------------------------
(* Compiled expressions and Function.Compile *)

\* A Compiled node.  k is its Go type; index the variable's index; val the
\* constant's Value; fn the raw function; kids the Args of a RawFunction, the
\* Value of a SetVariable, or Value, Else and the Cond, Then pairs of a CASE.
mkCompiled(k, index, val, fn, kids) ==
    [k |-> k, index |-> index, val |-> val, fn |-> fn, kids |-> kids]

\* a nil Compiled
NilCompiled == mkCompiled("nil", 0, NilValue, NoFn, <<>>)

CRowNum == mkCompiled("RowNum", 0, NilValue, NoFn, <<>>)

CSubRowNum == mkCompiled("SubRowNum", 0, NilValue, NoFn, <<>>)

CConstant(v) == mkCompiled("Constant", 0, v, NoFn, <<>>)

CRawFunction(fn, args) == mkCompiled("RawFunction", 0, NilValue, fn, args)

CGetVariable(index) == mkCompiled("GetVariable", index, NilValue, NoFn, <<>>)

\* SetVariable{Index: index}: the Value field is left nil
CSetVariable(index) == mkCompiled("SetVariable", index, NilValue, NoFn, <<NilCompiled>>)

CCaseValueWhen(value, whens, else) ==
    mkCompiled("CaseValueWhen", 0, NilValue, NoFn, <<value, else>> \o whens)

IsConstant(c) == c.k = "Constant"

\* the outcome of Compile and CompileExpr: st is "ok" with the node c,
\* "error", "panic", or the "unspecified" / "unbounded" of a value operation
FOk(c) == [st |-> "ok", c |-> c]

FFail(st) == [st |-> st, c |-> NilCompiled]

\* a value operation's outcome as a Compile outcome
FromValue(r) == IF r.st = "ok" THEN FOk(CConstant(r.v)) ELSE FFail(r.st)

\* the longest series the model lets generate_series build
MaxSeries == 6

\* the loop with the stop value left out: it ends as soon as value reaches stop
RECURSIVE generateSeriesExclusive(_, _, _, _, _)
generateSeriesExclusive(value, stop, step, stepSign, acc) ==
    Let([c \in {Cmp(value, stop)} |->
        IF c.st # "ok" THEN FFail(c.st)
        ELSE IF c.isNull \/ c.cmp = stepSign \/ c.cmp = 0 THEN FOk(CConstant(MakeArray(acc)))
        ELSE IF Len(acc) >= MaxSeries THEN FFail("unbounded")
        ELSE Let([nxt \in {Add(value, step)} |->
                 IF nxt.st # "ok" THEN FFail(nxt.st)
                 ELSE generateSeriesExclusive(nxt.v, stop, step, stepSign, Append(acc, value))])])

\* the loop of GenerateSeriesFunc.Compile
RECURSIVE generateSeriesLoop(_, _, _, _, _)
generateSeriesLoop(value, stop, step, stepSign, acc) ==
    Let([c \in {Cmp(value, stop)} |->
        IF c.st # "ok" THEN FFail(c.st)
        ELSE IF c.isNull \/ c.cmp = stepSign THEN FOk(CConstant(MakeArray(acc)))
        ELSE IF Len(acc) >= MaxSeries THEN FFail("unbounded")
        ELSE Let([nxt \in {Add(value, step)} |->
                 IF nxt.st # "ok" THEN FFail(nxt.st)
                 ELSE generateSeriesLoop(nxt.v, stop, step, stepSign, Append(acc, value))])])

GenerateSeriesCompile(args) ==
    IF Len(args) < 2 \/ Len(args) > 3 THEN FFail("error")
    ELSE IF Len(args) = 3
    THEN (IF Sign(args[3]) = 0 THEN FFail("error")
          ELSE generateSeriesLoop(args[1], args[2], args[3], Sign(args[3]), <<>>))
    ELSE generateSeriesLoop(args[1], args[2], MakeInt64(1), 1, <<>>)

SubscriptCompile(args) ==
    IF args[1].kind # "Array" THEN FFail("error")
    ELSE IF args[2].kind = "nil" THEN FFail("panic")
    ELSE IF args[2].kind # "Int" THEN FFail("error")
    ELSE IF ~IsInt64(args[2]) THEN FOk(CConstant(Null))
    ELSE IF args[2].n <= 0 \/ args[2].n > Len(args[1].a) THEN FOk(CConstant(Null))
    ELSE FOk(CConstant(args[1].a[args[2].n]))

CompareCompile(op, args) ==
    Let([c \in {Cmp(args[1], args[2])} |->
        Let([LT \in {op \in {"LT", "LE", "NE"}} |->
        Let([EQ \in {op \in {"LE", "EQ", "GE"}} |->
        Let([GT \in {op \in {"NE", "GT", "GE"}} |->
        IF c.st # "ok" THEN FFail(c.st)
        ELSE IF c.isNull THEN FOk(CConstant(Null))
        ELSE IF c.cmp = -1 THEN FOk(CConstant(MakeBool(LT)))
        ELSE IF c.cmp = 0 THEN FOk(CConstant(MakeBool(EQ)))
        ELSE FOk(CConstant(MakeBool(GT)))])])])])

BitwiseCompile(op, args) ==
    IF args[1].kind = "Null" \/ args[2].kind = "Null" THEN FOk(CConstant(Null))
    ELSE IF IsInt64(args[1]) /\ IsInt64(args[2])
    THEN FOk(CConstant(MakeInt64(BitOp(op, args[1].n, args[2].n))))
    ELSE IF args[1].kind # "Int" \/ args[2].kind # "Int" THEN FFail("error")
    ELSE FOk(CConstant(MakeInt(BitOp(op, args[1].n, args[2].n))))

ArithCompile(op, args) ==
    CASE op = "Add" -> FromValue(Add(args[1], args[2]))
      [] op = "Sub" -> FromValue(Sub(args[1], args[2]))
      [] op = "Mul" -> FromValue(Mul(args[1], args[2]))
      [] op = "FloatDiv" -> FromValue(FloatDiv(args[1], args[2]))
      [] op = "Div" -> FromValue(Div(args[1], args[2]))
      [] op = "Mod" -> FromValue(Mod(args[1], args[2]))

EncodeCompile(enc, args) ==
    IF args[1].kind # "Bytes" THEN FFail("error")
    ELSE FOk(CConstant(MakeBytes(IF enc = "Hex" THEN HexEncode(args[1].b) ELSE Base64Encode(args[1].b))))

DecodeCompile(enc, args) ==
    IF args[1].kind # "Bytes" THEN FFail("error")
    ELSE Let([r \in {IF enc = "Hex" THEN HexDecode(args[1].b) ELSE Base64Decode(args[1].b)} |->
             IF ~r.ok THEN FFail("error") ELSE FOk(CConstant(MakeBytes(r.b)))])

TimestampCompile(args) ==
    IF args[1].kind # "Bytes" THEN FFail("error")
    ELSE Let([r \in {ParseTimestamp(args[1].b)} |->
             IF ~r.ok THEN FFail("error") ELSE FOk(CConstant(MakeTimestamp(r.t)))])

isLetter(c) == c \in Range(LowerChars) \cup Range(UpperChars)

TimestampWithTimeZoneCompile(args) ==
    IF args[1].kind # "Bytes" THEN FFail("error")
    ELSE LET (* each is evaluated only where it is used *)
             input == args[1].b
             tzIdx == FirstIn(input, {c \in Range(input) : isLetter(c)})
             zone == SubSeq(input, tzIdx, Len(input))
             text == IF tzIdx = 0 THEN input ELSE SubSeq(input, 1, tzIdx - 1)
             r == ParseTimestamp(TrimSpace(text))
         IN  IF tzIdx # 0 /\ zone \notin KnownZones THEN FFail("error")
             ELSE IF ~r.ok THEN FFail("error")
             ELSE FOk(CConstant(MakeTimestamp(r.t)))

\* Function.Compile
FnCompile(fn, args) ==
    CASE fn.f \in Unimplemented -> FFail("panic")
      [] fn.f = "ArrayFunc" -> FOk(CConstant(MakeArray(args)))
      [] fn.f = "SubscriptFunc" -> SubscriptCompile(args)
      [] fn.f = "GenerateSeriesFunc" -> GenerateSeriesCompile(args)
      [] fn.f = "EncodeFunc" -> EncodeCompile(fn.a, args)
      [] fn.f = "DecodeFunc" -> DecodeCompile(fn.a, args)
      [] fn.f = "PanicFunc" -> FFail("error")
      [] fn.f = "NegFunc" -> FromValue(Neg(args[1]))
      [] fn.f = "CompareFunc" -> CompareCompile(fn.a, args)
      [] fn.f = "BitwiseFunc" -> BitwiseCompile(fn.a, args)
      [] fn.f = "ArithFunc" -> ArithCompile(fn.a, args)
      [] fn.f = "TimestampFunc" -> TimestampCompile(args)
      [] fn.f = "TimestampWithTimeZoneFunc" -> TimestampWithTimeZoneCompile(args)

----------------------------------------------------------------------------
(* CompileContext.CompileExpr *)

\* a CompileContext: Variables is a list of [A |-> name, B |-> value]
NewCompileContext(now) == [Variables |-> <<>>, CurrentTimestamp |-> now]

\* lo.FindIndexOf on ctx.Variables: the 0-based index of name, or -1
FindIndexOf(variables, name) ==
    Let([hits \in {{i \in DOMAIN variables : variables[i].A = name}} |->
        IF hits = {} THEN -1 ELSE SetMin(hits) - 1])

\* a faulty lookup: the name is appended whether or not it is present
internVariableAlways(ctx, name) ==
    [index |-> Len(ctx.Variables),
     ctx |-> [ctx EXCEPT !.Variables = Append(@, [A |-> name, B |-> Null])]]

\* the index of the variable name and the context that holds it: the name is
\* appended with the value NULL if it is absent
internVariable(ctx, name) ==
    Let([index \in {FindIndexOf(ctx.Variables, name)} |->
        IF index = -1
        THEN [index |-> Len(ctx.Variables),
              ctx |-> [ctx EXCEPT !.Variables = Append(@, [A |-> name, B |-> Null])]]
        ELSE [index |-> index, ctx |-> ctx]])

\* the outcome of CompileExpr: st, the node c, and the context afterwards
KOk(c, ctx) == [st |-> "ok", c |-> c, ctx |-> ctx]

KFail(st, ctx) == [st |-> st, c |-> NilCompiled, ctx |-> ctx]

\* a faulty folding step: the constant arguments are passed in reverse order
foldReversed(fn, compiledArgs) ==
    FnCompile(fn, [i \in DOMAIN compiledArgs |-> compiledArgs[Len(compiledArgs) + 1 - i].val])

\* the folding step of compileRawFunction: Compile on the constant arguments
foldConstants(fn, compiledArgs) ==
    FnCompile(fn, [i \in DOMAIN compiledArgs |-> compiledArgs[i].val])

RECURSIVE CompileExpr(_, _), compileArgs(_, _, _), compileRawFunction(_, _, _)
RECURSIVE compileCaseValueWhen(_, _)

\* the argument loop of compileRawFunction: [st, cs, ctx]
compileArgs(ctx, args, cs) ==
    IF args = <<>> THEN [st |-> "ok", cs |-> cs, ctx |-> ctx]
    ELSE IF Head(args).k = "nil" THEN compileArgs(ctx, Tail(args), Append(cs, CConstant(Null)))
    ELSE Let([r \in {CompileExpr(ctx, Head(args))} |->
             IF r.st # "ok" THEN [st |-> r.st, cs |-> <<>>, ctx |-> r.ctx]
             ELSE compileArgs(r.ctx, Tail(args), Append(cs, r.c))])

compileRawFunction(ctx, fn, args) ==
    Let([a \in {compileArgs(ctx, args, <<>>)} |->
        Let([isConst \in {\A i \in DOMAIN a.cs : args[i].k = "nil" \/ IsConstant(a.cs[i])} |->
        IF a.st # "ok" THEN KFail(a.st, a.ctx)
        ELSE IF isConst
        THEN Let([f \in {foldConstants(fn, a.cs)} |->
                 IF f.st # "ok" THEN KFail(f.st, a.ctx) ELSE KOk(f.c, a.ctx)])
        ELSE KOk(CRawFunction(fn, a.cs), a.ctx)])])

\* CaseValueWhen.Eval
CaseValueWhenEval == "panic"

compileCaseValueWhen(ctx, expr) ==
    Let([value \in {IF expr.kids[1].k # "nil" THEN CompileExpr(ctx, expr.kids[1])
                    ELSE KOk(CConstant(Null), ctx)} |->
        IF value.st # "ok" THEN value ELSE
        Let([whens \in {compileArgs(value.ctx, SubSeq(expr.kids, 3, Len(expr.kids)), <<>>)} |->
            IF whens.st # "ok" THEN KFail(whens.st, whens.ctx) ELSE
        Let([else \in {IF expr.kids[2].k # "nil" THEN CompileExpr(whens.ctx, expr.kids[2])
                       ELSE KOk(CConstant(Null), whens.ctx)} |->
            IF else.st # "ok" THEN else ELSE
        IF IsConstant(value.c) /\ (\A i \in DOMAIN whens.cs : IsConstant(whens.cs[i])) /\ IsConstant(else.c)
        THEN KFail(CaseValueWhenEval, else.ctx)
        ELSE KOk(CCaseValueWhen(value.c, whens.cs, else.c), else.ctx)])])])

CompileExpr(ctx, expr) ==
    CASE expr.k = "RowNum" -> KOk(CRowNum, ctx)
      [] expr.k = "SubRowNum" -> KOk(CSubRowNum, ctx)
      [] expr.k = "CurrentTimestamp" -> KOk(CConstant(MakeTimestamp(ctx.CurrentTimestamp)), ctx)
      [] expr.k = "Constant" -> KOk(CConstant(expr.val), ctx)
      [] expr.k = "GetVariable" ->
            Let([v \in {internVariable(ctx, expr.name)} |->    KOk(CGetVariable(v.index), v.ctx)])
      [] expr.k = "SetVariable" ->
            Let([v \in {internVariable(ctx, expr.name)} |->    KOk(CSetVariable(v.index), v.ctx)])
      [] expr.k = "UnaryExpr" ->
            IF ~HasUnaryFunc(expr.op) THEN KFail("error", ctx)
            ELSE compileRawFunction(ctx, UnaryFunc(expr.op), expr.kids)
      [] expr.k = "BinaryExpr" ->
            IF ~HasBinaryFunc(expr.op) THEN KFail("error", ctx)
            ELSE compileRawFunction(ctx, BinaryFunc(expr.op), expr.kids)
      [] expr.k = "ParenExpr" -> CompileExpr(ctx, expr.kids[1])
      [] expr.k = "FuncExpr" ->
            IF ~HasGenericFunc(UniqueName(expr.qn)) THEN KFail("error", ctx)
            ELSE Let([fn \in {GenericFunc(UniqueName(expr.qn))} |->
                     IF NumArgs(fn) >= 0 /\ Len(expr.kids) # NumArgs(fn) THEN KFail("error", ctx)
                     ELSE compileRawFunction(ctx, fn, expr.kids)])
      [] expr.k = "CaseValueWhen" -> compileCaseValueWhen(ctx, expr)
      [] expr.k = "Timestamp" ->
            compileRawFunction(ctx,
                IF expr.op = "WithTimezone" THEN Fn("TimestampWithTimeZoneFunc", "") ELSE Fn("TimestampFunc", ""),
                expr.kids)
      [] expr.k = "Interval" ->
            compileRawFunction(ctx, BinaryFunc("Mul"),
                <<expr.kids[1], Constant(MakeInterval(UnitDuration(expr.op)))>>)
      [] expr.k = "Array" -> compileRawFunction(ctx, Fn("ArrayFunc", ""), expr.kids)
      [] expr.k = "Subscript" -> compileRawFunction(ctx, Fn("SubscriptFunc", ""), expr.kids)
      [] expr.k = "Substring" -> compileRawFunction(ctx, Fn("SubstringFunc", expr.op), expr.kids)
      [] expr.k = "Overlay" -> compileRawFunction(ctx, Fn("OverlayFunc", expr.op), expr.kids)
      [] OTHER -> KFail("error", ctx)

----------------------------------------------------------------------------
(* Compiled.Eval *)

\* a State; its CompileCtx is the context ctx
State(rowNum, subRowNum, ctx) == [RowNum |-> rowNum, SubRowNum |-> subRowNum, CompileCtx |-> ctx]

\* the outcome of Eval: st, the value v, and the state afterwards
EOk(v, state) == [st |-> "ok", v |-> v, state |-> state]

EFail(st, state) == [st |-> st, v |-> NilValue, state |-> state]

RECURSIVE Eval(_, _), evalArgs(_, _, _)

\* the argument loop of RawFunction.Eval: [st, vs, state]
evalArgs(args, state, vs) ==
    IF args = <<>> THEN [st |-> "ok", vs |-> vs, state |-> state]
    ELSE Let([r \in {Eval(Head(args), state)} |->
             IF r.st # "ok" THEN [st |-> r.st, vs |-> <<>>, state |-> r.state]
             ELSE evalArgs(Tail(args), r.state, Append(vs, r.v))])

Eval(c, state) ==
    CASE c.k = "RowNum" -> EOk(MakeInt64(state.RowNum), state)
      [] c.k = "SubRowNum" -> EOk(MakeInt64(state.SubRowNum), state)
      [] c.k = "Constant" -> EOk(c.val, state)
      [] c.k = "RawFunction" ->
            Let([a \in {evalArgs(c.kids, state, <<>>)} |->
                IF a.st # "ok" THEN EFail(a.st, a.state)
                ELSE Let([f \in {FnCompile(c.fn, a.vs)} |->
                         IF f.st # "ok" THEN EFail(f.st, a.state) ELSE Eval(f.c, a.state)])])
      [] c.k = "GetVariable" ->
            IF c.index >= Len(state.CompileCtx.Variables) THEN EFail("panic", state)
            ELSE EOk(state.CompileCtx.Variables[c.index + 1].B, state)
      [] c.k = "SetVariable" ->
            Let([r \in {Eval(c.kids[1], state)} |->
                IF r.st # "ok" THEN r
                ELSE IF c.index >= Len(r.state.CompileCtx.Variables) THEN EFail("panic", r.state)
                ELSE EOk(r.v, [r.state EXCEPT !.CompileCtx.Variables[c.index + 1].B = r.v])])
      [] c.k = "CaseValueWhen" -> EFail(CaseValueWhenEval, state)
      [] c.k = "nil" -> EFail("panic", state)

----------------------------------------------------------------------------
(* Inputs *)


SeqsUpTo(S, n) == UNION {[1 .. k -> S] : k \in 0 .. n}

None == <<>>

\* fragments the lexer inputs are assembled from
LexPieces ==
    { <<"/","*","{","{">>, <<"}","}">>, <<"}","}","*","/">>, <<"{","{">>,
      <<"*","/">>, <<"\n">>, <<" ">>, <<"a">>, <<"1">>, <<"'">>, <<"-","-">> }

MaxLexPieces == 4

\* fragments the inputs that open with a comment are assembled from
CommentPieces ==
    { <<"/","*">>, <<"/">>, <<"*","/">>, <<"{","{">>, <<"}","}">>, <<"{">>, <<"a">>,
      <<"'">> }

MaxCommentPieces == 3

CommentInputs ==
    {<<"/","*">> \o Flatten(ps) : ps \in SeqsUpTo(CommentPieces, MaxCommentPieces)}

LexInputs ==
    {Flatten(ps) : ps \in SeqsUpTo(LexPieces, MaxLexPieces)} \cup CommentInputs

----------------------------------------------------------------------------
(* The lexer driven as lexAll drives it: lex() until EOF or Error *)

InitLex ==
    /\ mode = "lex"
    /\ src \in LexInputs
    /\ lx = newLexer(src)
    /\ toks = <<>>
    /\ pc = "run"
    /\ ast = None /\ printed = None /\ reparsed = None
    /\ parsed = None
    /\ row = None /\ rowState = None /\ result = None
    /\ operands = None /\ returned = None
    /\ cctx = None /\ nodes = None /\ evals = None

LexStep ==
    /\ mode = "lex"
    /\ pc = "run"
    /\ (\E r \in {lex(lx)} :
           /\ toks' = Append(toks, r.tok)
           /\ lx' = r.l
           /\ pc' = IF r.tok.typ \in {"EOF", "Error", "Panic"} THEN "done" ELSE "run")
    /\ UNCHANGED <<rowVars, callVars, mode, src, exprVars, parsed, evalVars>>

NextLex == LexStep

SpecLex == InitLex /\ [][NextLex]_vars


----------------------------------------------------------------------------
(* Inputs of the template parser *)

\* fragments placed among the elements and the options of a CREATE TABLE
TablePieces ==
    { <<"a"," ">>, <<"{","{","1","}","}"," ">>, <<"/","*","{","{","1","}","}","*","/"," ">>, <<"("," ">>, <<")"," ">>, <<"\n">> }

MaxElemPieces == 3

MaxOptPieces == 1

\* CREATE TABLE t ( elements ) options ;
ContentInputs ==
    { <<"c","r","e","a","t","e"," ","t","a","b","l","e"," ","t"," ","(">> \o Flatten(es) \o <<")">> \o Flatten(os) \o <<";">> :
        es \in SeqsUpTo(TablePieces, MaxElemPieces),
        os \in SeqsUpTo(TablePieces, MaxOptPieces) }

TableNames == { <<"a">>, <<"b">> }

TableText(name) == <<"c","r","e","a","t","e"," ","t","a","b","l","e"," ">> \o name \o <<" ","(","x"," ","i","n","t",")",";">>

\* the k-th derive block of an input generates k rows, followed by its table
DeriveText(k, parent, child, name) ==
    <<"{","{"," ","f","o","r"," ","e","a","c","h"," ","r","o","w"," ","o","f"," ">> \o parent \o <<" ","g","e","n","e","r","a","t","e"," ">> \o NatToStr(k)
        \o <<" ","r","o","w","s"," ","o","f"," ">> \o child \o <<" ","}","}"," ">> \o TableText(name)

MaxDerived == 2

RECURSIVE DeriveChains(_, _)
DeriveChains(k, n) ==
    IF k > n THEN {<<>>}
    ELSE {<<>>} \cup
         { DeriveText(k, parent, child, name) \o rest :
             parent \in TableNames, child \in TableNames, name \in TableNames,
             rest \in DeriveChains(k + 1, n) }

DerivedInputs ==
    { TableText(name) \o chain : name \in TableNames, chain \in DeriveChains(1, MaxDerived) }

\* elements of a CREATE TABLE that bear on column names: [text, kind, tok];
\* kind "name" is an identifier-like token tok, "block" a statement block
\* with the number tok, "other" anything else
ColumnPieces ==
    { [text |-> <<"a"," ">>, kind |-> "name", tok |-> <<"a">>],
      [text |-> <<"B"," ">>, kind |-> "name", tok |-> <<"B">>],
      [text |-> <<BackQuote,"c"," ","d",BackQuote," ">>, kind |-> "name", tok |-> <<BackQuote,"c"," ","d",BackQuote>>],
      [text |-> <<"r","o","w","s"," ">>, kind |-> "name", tok |-> <<"r","o","w","s">>],
      [text |-> <<"7"," ">>, kind |-> "other", tok |-> <<>>],
      [text |-> <<"'","s","'"," ">>, kind |-> "other", tok |-> <<>>],
      [text |-> <<","," ">>, kind |-> "other", tok |-> <<>>],
      [text |-> <<"(","x"," ","[","y","]",")"," ">>, kind |-> "other", tok |-> <<>>],
      [text |-> <<"{","{","1","}","}"," ">>, kind |-> "block", tok |-> <<"1">>],
      [text |-> <<"/","*","{","{","2","}","}","*","/"," ">>, kind |-> "block", tok |-> <<"2">>] }

MaxColumnPieces == 3

ColumnHead == <<"c","r","e","a","t","e"," ","t","a","b","l","e"," ","t"," ","(">>

ColumnTail == <<")",";">>

RECURSIVE PiecesText(_)
PiecesText(ps) == IF ps = <<>> THEN <<>> ELSE Head(ps).text \o PiecesText(Tail(ps))

ColumnInputs ==
    { ColumnHead \o PiecesText(ps) \o ColumnTail : ps \in SeqsUpTo(ColumnPieces, MaxColumnPieces) }

\* the interval units as written, with their token types
IntervalUnitTable ==
    { <<<<"w","e","e","k">>, "Week">>, <<<<"d","a","y">>, "Day">>, <<<<"h","o","u","r">>, "Hour">>,
      <<<<"m","i","n","u","t","e">>, "Minute">>, <<<<"s","e","c","o","n","d">>, "Second">>,
      <<<<"m","i","l","l","i","s","e","c","o","n","d">>, "Millisecond">>, <<<<"m","i","c","r","o","s","e","c","o","n","d">>, "Microsecond">> }

\* a column whose block is INTERVAL 30 unit, or the sum of INTERVAL 1 unit
\* and INTERVAL 30 unit
IntervalInputs ==
    { <<"c","r","e","a","t","e"," ","t","a","b","l","e"," ","t"," ","(","a"," ","{","{"," ","i","n","t","e","r","v","a","l"," ","3","0"," ">> \o u[1] \o <<" ","}","}",")",";">> : u \in IntervalUnitTable }
    \cup { <<"c","r","e","a","t","e"," ","t","a","b","l","e"," ","t"," ","(","a"," ","{","{"," ","i","n","t","e","r","v","a","l"," ","1"," ">> \o u[1] \o <<" ","+"," ","i","n","t","e","r","v","a","l"," ","3","0"," ">> \o u[1] \o <<" ","}","}",")",";">> :
              u \in IntervalUnitTable }

TemplateInputs == ContentInputs \cup DerivedInputs \cup ColumnInputs \cup IntervalInputs

----------------------------------------------------------------------------
(* The template parser: one call of Parser.Parse on an input *)

InitTemplate ==
    /\ mode = "template"
    /\ src \in TemplateInputs
    /\ pc = "parse"
    /\ lx = None /\ toks = None
    /\ ast = None /\ printed = None /\ reparsed = None
    /\ parsed = None
    /\ row = None /\ rowState = None /\ result = None
    /\ operands = None /\ returned = None
    /\ cctx = None /\ nodes = None /\ evals = None

ParseStep ==
    /\ mode = "template"
    /\ pc = "parse"
    /\ parsed' = Parse(src)
    /\ pc' = "done"
    /\ UNCHANGED <<rowVars, callVars, mode, src, lexVars, exprVars, evalVars>>

NextTemplate == ParseStep

SpecTemplate == InitTemplate /\ [][NextTemplate]_vars

----------------------------------------------------------------------------
(* Inputs of the expression parser *)

\* fragments expressions are assembled from
ExprPieces ==
    { <<"1"," ">>, <<"0","x","1"," ">>, <<"1",".","0"," ">>, <<"'","a","'"," ">>, <<"@","x"," ">>, <<"@",BackQuote,"[","[","a","]",BackQuote," ">>, <<"f">>,
      <<"+"," ">>, <<"-"," ">>, <<":","="," ">>, <<"("," ">>, <<")"," ">>, <<"n","o","t"," ">>, <<"i","s"," ">> }

MaxExprPieces == 3

\* one expression of every kind of node
ExprSamples ==
    { <<"1"," ","+"," ","2"," ","*"," ","3"," ","-"," ","4"," ","/"," ","5">>, <<"(","1"," ","+"," ","2",")"," ","*"," ","3">>, <<"1"," ","-"," ","(","2"," ","-"," ","3",")">>, <<"1"," ","|","|"," ","2"," ","<"," ","3"," ","a","n","d"," ","4"," ","<",">"," ","5"," ","o","r"," ","n","o","t"," ","6"," ",">","="," ","7">>,
      <<"~","1"," ","&"," ","2"," ","|"," ","3"," ","^"," ","4">>, <<"@","x"," ",":","="," ","@","y"," ",":","="," ","1">>, <<"a",".","b","(","1",","," ","'","x","'",")","[","2","]"," ","i","s"," ","n","o","t"," ","n","u","l","l">>,
      <<"c","a","s","e"," ","@","x"," ","w","h","e","n"," ","1"," ","t","h","e","n"," ","2"," ",";"," ","3"," ","w","h","e","n"," ","4"," ","t","h","e","n"," ","5"," ","e","l","s","e"," ","6"," ","e","n","d">>, <<"c","a","s","e"," ","1"," ","w","h","e","n"," ","2"," ","t","h","e","n"," ","3"," ","e","n","d">>,
      <<"i","n","t","e","r","v","a","l"," ","3"," ","d","a","y">>, <<"i","n","t","e","r","v","a","l"," ","@","x"," ","w","e","e","k">>, <<"t","i","m","e","s","t","a","m","p"," ","'","2","0","0","0","-","0","1","-","0","1"," ","0","0",":","0","0",":","0","0","'">>,
      <<"t","i","m","e","s","t","a","m","p"," ","w","i","t","h"," ","t","i","m","e"," ","z","o","n","e"," ","'","2","0","0","0","-","0","1","-","0","1"," ","0","0",":","0","0",":","0","0"," ","U","T","C","'">>, <<"a","r","r","a","y","[","1",","," ","2","]">>, <<"a","r","r","a","y","[","]">>,
      <<"s","u","b","s","t","r","i","n","g","(","'","a","b","c","'"," ","f","r","o","m"," ","2"," ","f","o","r"," ","1",")">>, <<"s","u","b","s","t","r","i","n","g","(","'","a","b","c","'"," ","f","r","o","m"," ","2"," ","u","s","i","n","g"," ","o","c","t","e","t","s",")">>,
      <<"s","u","b","s","t","r","i","n","g","(","'","a","b","c","'"," ","f","o","r"," ","2"," ","u","s","i","n","g"," ","c","h","a","r","a","c","t","e","r","s",")">>, <<"o","v","e","r","l","a","y","(","'","a","b","c","'"," ","p","l","a","c","i","n","g"," ","'","x","'"," ","f","r","o","m"," ","1",")">>,
      <<"o","v","e","r","l","a","y","(","'","a","b","c","'"," ","p","l","a","c","i","n","g"," ","'","x","'"," ","f","r","o","m"," ","1"," ","f","o","r"," ","2"," ","u","s","i","n","g"," ","o","c","t","e","t","s",")">>, <<"x","'","6","1","'">>, <<"r","o","w","n","u","m"," ","+"," ","s","u","b","r","o","w","n","u","m">>,
      <<"c","u","r","r","e","n","t","_","t","i","m","e","s","t","a","m","p">>, <<"n","u","l","l"," ","i","s"," ","n","u","l","l">>, <<"t","r","u","e"," ","<",">"," ","f","a","l","s","e">>, <<"'","i","t","'","'","s","'">>, <<"@","\"","a"," ","b","\"">>,
      <<"1","e","3">>, <<"1",".","5">>, <<"3","0","0">>, <<"0","1","7">>, <<"f","(",")">>, <<"\"","F","\"",".","g","(","-","1",")">> }

ExprInputs ==
    {Flatten(ps) : ps \in SeqsUpTo(ExprPieces, MaxExprPieces)} \cup ExprSamples

----------------------------------------------------------------------------
(* Parse, print with String(), parse the printed text again *)

InitExpr ==
    /\ mode = "expr"
    /\ src \in ExprInputs
    /\ pc = "parse"
    /\ lx = None /\ toks = None
    /\ ast = None /\ printed = None /\ reparsed = None
    /\ parsed = None
    /\ row = None /\ rowState = None /\ result = None
    /\ operands = None /\ returned = None
    /\ cctx = None /\ nodes = None /\ evals = None

ParseExprStep ==
    /\ mode = "expr"
    /\ pc = "parse"
    /\ ast' = ParseExpr(src)
    /\ pc' = IF ast'.st = "ok" THEN "print" ELSE "done"
    /\ UNCHANGED <<rowVars, callVars, mode, src, lexVars, printed, reparsed, parsed, evalVars>>

StringStep ==
    /\ mode = "expr"
    /\ pc = "print"
    /\ printed' = ExprString(ast.e)
    /\ pc' = "reparse"
    /\ UNCHANGED <<rowVars, callVars, mode, src, lexVars, ast, reparsed, parsed, evalVars>>

ReparseStep ==
    /\ mode = "expr"
    /\ pc = "reparse"
    /\ reparsed' = ParseExpr(printed)
    /\ pc' = "done"
    /\ UNCHANGED <<rowVars, callVars, mode, src, lexVars, ast, printed, parsed, evalVars>>

NextExpr == ParseExprStep \/ StringStep \/ ReparseStep

SpecExpr == InitExpr /\ [][NextExpr]_vars

----------------------------------------------------------------------------
(* Inputs of the compiler: the statements of {{ ... }} blocks *)

BlockTexts ==
    { <<"@","x">>, <<"@","y">>, <<"@","x"," ","+"," ","@","y">>, <<"@","y"," ","+"," ","1"," ","<"," ","@","x">>, <<"@","x"," ",":","="," ","1">>, <<"@","y"," ",":","="," ","@","z">>,
      <<"1"," ",";"," ","2">>, <<"@","x"," ",";"," ","@","y"," ",";"," ","3">>, <<"r","o","w","n","u","m"," ","+"," ","1">>, <<"@","z"," ","+"," ","f","(",")">>, <<"(","@","y",")"," ","|","|"," ","f","(","@","w",")">>,
      <<"c","a","s","e"," ","@","x"," ","w","h","e","n"," ","1"," ","t","h","e","n"," ","@","y"," ","e","l","s","e"," ","2"," ","e","n","d">>, <<"1"," ","+"," ","2">> }

\* the statement of the block {{ text }}, as parseStmtBlock returns it
BlockExpr(text) == parseStmtBlock(pInit(leftDelim \o text \o rightDelim))

BlockExprs == {BlockExpr(t).e : t \in {u \in BlockTexts : BlockExpr(u).ok}}

MaxCompiles == 2

MaxEvals == 1

MaxRowNum == 2

----------------------------------------------------------------------------
(* One CompileContext: CompileExpr calls, and Eval calls on their results *)

InitEval ==
    /\ mode = "eval"
    /\ cctx = NewCompileContext(0)
    /\ nodes = <<>>
    /\ evals = <<>>
    /\ pc = "run"
    /\ src = None
    /\ lx = None /\ toks = None
    /\ ast = None /\ printed = None /\ reparsed = None
    /\ parsed = None
    /\ row = None /\ rowState = None /\ result = None
    /\ operands = None /\ returned = None

\* ctx.CompileExpr(expr); a panic ends the program
CompileStep ==
    /\ mode = "eval"
    /\ pc = "run"
    /\ Len(nodes) < MaxCompiles
    /\ \E expr \in BlockExprs :
        (\E r \in {CompileExpr(cctx, expr)} :
            /\ nodes' = Append(nodes, [expr |-> expr, st |-> r.st, c |-> r.c])
            /\ cctx' = r.ctx
            /\ pc' = IF r.st = "panic" THEN "crashed" ELSE "run")
    /\ UNCHANGED <<rowVars, callVars, mode, src, lexVars, exprVars, parsed, evals>>

\* compiled.Eval(state) on a node an earlier CompileExpr returned
EvalStep ==
    /\ mode = "eval"
    /\ pc = "run"
    /\ Len(evals) < MaxEvals
    /\ \E i \in DOMAIN nodes, rowNum \in 1 .. MaxRowNum :
        /\ nodes[i].st = "ok"
        /\ (\E r \in {Eval(nodes[i].c, State(rowNum, 1, cctx))} :
               /\ evals' = Append(evals, [node |-> i, rowNum |-> rowNum, st |-> r.st, v |-> r.v])
               /\ cctx' = r.state.CompileCtx
               /\ pc' = IF r.st = "panic" THEN "crashed" ELSE "run")
    /\ UNCHANGED <<rowVars, callVars, mode, src, lexVars, exprVars, parsed, nodes>>

NextEval == CompileStep \/ EvalStep

SpecEval == InitEval /\ [][NextEval]_vars

----------------------------------------------------------------------------
(* Inputs of the compiler: expressions over constants, and a few others *)

ConstTexts ==
    { <<"0">>, <<"1">>, <<"2">>, <<"1","2","7">>, <<"1",".","5">>, <<"'","a","'">>, <<"'","b","'">>, <<"n","u","l","l">>, <<"t","r","u","e">>,
      <<"a","r","r","a","y","[","1",","," ","2","]">>, <<"a","r","r","a","y","[","]","[","1","]">>, <<"i","n","t","e","r","v","a","l"," ","1"," ","d","a","y">>,
      <<"t","i","m","e","s","t","a","m","p"," ","'","2","0","0","0","-","0","1","-","0","1"," ","0","0",":","0","0",":","0","0","'">> }

BinaryOpTexts ==
    { <<"+">>, <<"-">>, <<"*">>, <<"/">>, <<"<">>, <<"<","=">>, <<"=">>, <<"<",">">>, <<">">>, <<">","=">>,
      <<"&">>, <<"|">>, <<"^">>, <<"|","|">>, <<"a","n","d">>, <<"o","r">>, <<"i","s">>, <<"i","s"," ","n","o","t">> }

UnaryOpTexts == { <<"-">>, <<"+">>, <<"~">>, <<"n","o","t">> }

FoldSamples ==
    { <<"(","1"," ","+"," ","2",")"," ","*"," ","3">>, <<"1"," ","+"," ","2"," ","*"," ","3"," ","-"," ","4">>, <<"-","(","1"," ","+"," ","1","2","6",")">>, <<"1","2","7"," ","+"," ","1"," ","-"," ","1">>, <<"1"," ","/"," ","0">>,
      <<"g","e","n","e","r","a","t","e","_","s","e","r","i","e","s","(","1",","," ","3",")","[","2","]"," ","+"," ","1">>, <<"g","e","n","e","r","a","t","e","_","s","e","r","i","e","s","(","3",","," ","1",","," ","-","1",")">>, <<"a","r","r","a","y","[","1"," ","+"," ","1",","," ","2","]","[","1","]">>,
      <<"a","r","r","a","y","[","1",","," ","2","]","[","3","]">>, <<"i","n","t","e","r","v","a","l"," ","2"," ","+"," ","1"," ","w","e","e","k">>, <<"d","e","c","o","d","e",".","h","e","x","(","e","n","c","o","d","e",".","h","e","x","(","'","a","'",")",")">>,
      <<"d","e","c","o","d","e",".","b","a","s","e","6","4","(","e","n","c","o","d","e",".","b","a","s","e","6","4","(","'","a","b","'",")",")">>, <<"d","e","c","o","d","e",".","h","e","x","(","'","6","'",")">>, <<"x","'","6","1","'">>,
      <<"m","o","d","(","7",","," ","2",")">>, <<"d","i","v","(","7",","," ","2",")">>, <<"d","i","v","(","-","7",","," ","2",")">>, <<"m","o","d","(","-","7",","," ","2",")">>, <<"d","i","v","(","7",","," ","0",")">>, <<"d","i","v","(","1",")">>,
      <<"t","i","m","e","s","t","a","m","p"," ","'","2","0","0","0","-","0","1","-","0","1"," ","0","0",":","0","0",":","0","0","'"," ","+"," ","i","n","t","e","r","v","a","l"," ","1"," ","d","a","y"," ","<"," ","c","u","r","r","e","n","t","_","t","i","m","e","s","t","a","m","p">>,
      <<"t","i","m","e","s","t","a","m","p"," ","w","i","t","h"," ","t","i","m","e"," ","z","o","n","e"," ","'","2","0","0","0","-","0","1","-","0","1"," ","0","0",":","0","0",":","0","0"," ","U","T","C","'">>, <<"t","i","m","e","s","t","a","m","p"," ","'","x","'">>,
      <<"1"," ","<"," ","a","r","r","a","y","[","]","[","1","]">>, <<"f","(","1",")">>, <<"r","o","u","n","d","(","1",".","5",")">>, <<"c","o","a","l","e","s","c","e","(","n","u","l","l",","," ","1",")">>,
      <<"s","u","b","s","t","r","i","n","g","(","'","a","b","c","'"," ","f","r","o","m"," ","2",")">>, <<"r","a","n","d",".","b","o","o","l","(","1",")">>,
      <<"c","a","s","e"," ","2"," ","w","h","e","n"," ","1"," ","t","h","e","n"," ","'","a","'"," ","w","h","e","n"," ","2"," ","t","h","e","n"," ","'","b","'"," ","e","l","s","e"," ","'","c","'"," ","e","n","d">>,
      <<"c","a","s","e"," ","3"," ","w","h","e","n"," ","1"," ","t","h","e","n"," ","'","a","'"," ","e","n","d">>, <<"c","a","s","e"," ","r","o","w","n","u","m"," ","w","h","e","n"," ","1"," ","t","h","e","n"," ","'","a","'"," ","e","l","s","e"," ","'","c","'"," ","e","n","d">>,
      <<"c","a","s","e"," ","w","h","e","n"," ","t","r","u","e"," ","t","h","e","n"," ","1"," ","e","n","d">>,
      <<"r","o","w","n","u","m">>, <<"s","u","b","r","o","w","n","u","m">>, <<"@","x">>, <<"1"," ","+"," ","r","o","w","n","u","m">>, <<"@","x"," ","+"," ","1">>, <<"(","1"," ","+"," ","2",")"," ","+"," ","r","o","w","n","u","m">>,
      <<"-"," ","r","o","w","n","u","m">>, <<"a","r","r","a","y","[","1",","," ","r","o","w","n","u","m","]">>, <<"a","r","r","a","y","[","1",","," ","2","]","[","r","o","w","n","u","m","]">>, <<"i","n","t","e","r","v","a","l"," ","r","o","w","n","u","m"," ","d","a","y">>,
      <<"d","i","v","(","7",","," ","r","o","w","n","u","m",")">>, <<"@","x"," ",":","="," ","1"," ","+"," ","2">> }

FoldInputs ==
    { a \o <<" ">> \o op \o <<" ">> \o b : a \in ConstTexts, op \in BinaryOpTexts, b \in ConstTexts }
        \cup { op \o <<" ">> \o a : op \in UnaryOpTexts, a \in ConstTexts }
        \cup ConstTexts \cup FoldSamples

----------------------------------------------------------------------------
(* One expression: ParseExpr, CompileExpr on a fresh context, then Eval *)

InitFold ==
    /\ mode = "fold"
    /\ src \in FoldInputs
    /\ pc = "parse"
    /\ cctx = NewCompileContext(0)
    /\ nodes = <<>>
    /\ evals = <<>>
    /\ ast = None /\ printed = None /\ reparsed = None
    /\ lx = None /\ toks = None
    /\ parsed = None
    /\ row = None /\ rowState = None /\ result = None
    /\ operands = None /\ returned = None

FoldParseStep ==
    /\ mode = "fold"
    /\ pc = "parse"
    /\ ast' = ParseExpr(src)
    /\ pc' = IF ast'.st = "ok" THEN "compile" ELSE "done"
    /\ UNCHANGED <<rowVars, callVars, mode, src, lexVars, printed, reparsed, parsed, evalVars>>

FoldCompileStep ==
    /\ mode = "fold"
    /\ pc = "compile"
    /\ (\E r \in {CompileExpr(cctx, ast.e)} :
           /\ nodes' = <<[expr |-> ast.e, st |-> r.st, c |-> r.c]>>
           /\ cctx' = r.ctx
           /\ pc' = IF r.st = "ok" THEN "eval" ELSE IF r.st = "panic" THEN "crashed" ELSE "done")
    /\ UNCHANGED <<rowVars, callVars, mode, src, lexVars, exprVars, parsed, evals>>

FoldEvalStep ==
    /\ mode = "fold"
    /\ pc = "eval"
    /\ \E rowNum \in 1 .. MaxRowNum :
        (\E r \in {Eval(nodes[1].c, State(rowNum, 1, cctx))} :
            /\ evals' = <<[node |-> 1, rowNum |-> rowNum, st |-> r.st, v |-> r.v]>>
            /\ cctx' = r.state.CompileCtx
            /\ pc' = IF r.st = "panic" THEN "crashed" ELSE "done")
    /\ UNCHANGED <<rowVars, callVars, mode, src, lexVars, exprVars, parsed, nodes>>

NextFold == FoldParseStep \/ FoldCompileStep \/ FoldEvalStep

SpecFold == InitFold /\ [][NextFold]_vars
----------------------------------------------------------------------------
(* Row.Eval: a Row evaluated against a State, one column at a time *)

\* SetVariable{Index: index, Value: value}
CSetVariableOf(index, value) == mkCompiled("SetVariable", index, NilValue, NoFn, <<value>>)

\* an expression whose Eval returns an error: div(rownum, 0)
FailingNode == CRawFunction(Fn("ArithFunc", "Div"), <<CRowNum, CConstant(MakeInt64(0))>>)

\* the compiled expressions the rows are made of
RowNodes ==
    { CConstant(MakeInt64(1)),
      CSubRowNum,
      CGetVariable(0),
      FailingNode,
      CSetVariableOf(0, CConstant(MakeInt64(1))),
      CSetVariableOf(1, CRowNum),
      CSetVariableOf(0, FailingNode),
      CSetVariableOf(1, CRawFunction(Fn("ArithFunc", "Add"), <<CGetVariable(0), CConstant(MakeInt64(1))>>)),
      CRawFunction(Fn("ArithFunc", "Add"), <<CSetVariableOf(0, CConstant(MakeInt64(2))), FailingNode>>) }

MaxRowLen == 3

Rows == UNION {[1 .. n -> RowNodes] : n \in 0 .. MaxRowLen}

\* the variables of the context the rows were compiled in: @a and @b
RowVariables == <<[A |-> <<"a">>, B |-> Null], [A |-> <<"b">>, B |-> Null]>>

InitRow ==
    /\ mode = "row"
    /\ pc = "run"
    /\ src = None
    /\ lx = None /\ toks = None
    /\ ast = None /\ printed = None /\ reparsed = None
    /\ parsed = None
    /\ cctx = None /\ nodes = None
    /\ operands = None /\ returned = None
    /\ evals = <<>>
    /\ row \in Rows
    /\ \E rowNum \in 1 .. MaxRowNum :
        rowState = State(rowNum, 1, [Variables |-> RowVariables, CurrentTimestamp |-> 0])
    /\ result = [pos |-> 0, st |-> "running", values |-> <<>>]

\* a faulty loop: the error of a column is dropped and the loop goes on
rowIgnoreError(res, r) == [pos |-> res.pos + 1, st |-> "running", values |-> Append(res.values, r.v)]

\* the loop of Row.Eval leaves at an error: no values are returned
rowReturnError(res, r) == [pos |-> res.pos + 1, st |-> r.st, values |-> <<>>]

\* one iteration of the loop of Row.Eval, r the outcome of compiled.Eval(state)
rowIter(res, r) ==
    IF r.st # "ok" THEN rowReturnError(res, r)
    ELSE [pos |-> res.pos + 1, st |-> "running", values |-> Append(res.values, r.v)]

\* Row.Eval, the next column
RowEvalStep ==
    /\ mode = "row"
    /\ pc = "run"
    /\ result.pos < Len(row)
    /\ (\E r \in {Eval(row[result.pos + 1], rowState)} :
           /\ result' = rowIter(result, r)
           /\ rowState' = r.state
           /\ evals' = Append(evals, [node |-> result.pos + 1, rowNum |-> rowState.RowNum,
                                      st |-> r.st, v |-> r.v])
           /\ pc' = IF r.st # "ok" THEN "done" ELSE "run")
    /\ UNCHANGED <<callVars, mode, src, lexVars, exprVars, parsed, cctx, nodes, row>>

\* Row.Eval, after the last column: return result, nil
RowReturnStep ==
    /\ mode = "row"
    /\ pc = "run"
    /\ result.pos = Len(row)
    /\ result' = [result EXCEPT !.st = "ok"]
    /\ pc' = "done"
    /\ UNCHANGED <<callVars, mode, src, lexVars, exprVars, parsed, evalVars, row, rowState>>

NextRow == RowEvalStep \/ RowReturnStep

SpecRow == InitRow /\ [][NextRow]_vars

----------------------------------------------------------------------------
(* One call of a constructor or an arithmetic function of package constant *)

\* the integers given as operands: the ends of the 64-bit range and small ones
ArithInts == {MinInt64, MinInt64 + 1, -7, -2, -1, 0, 1, 2, 7, MaxInt64 - 1, MaxInt64}

\* the integers given in big.Int form: outside the 64-bit range, and small
\* ones such as the literal 0x1 and the big-path results produce
ArithBigs == {2 * MinInt64, MinInt64 - 1, -7, 0, 1, 2, MaxInt64 + 1}

ArithOperands ==
    {MakeInt64(n) : n \in ArithInts} \cup {bigIntVal(n) : n \in ArithBigs}
    \cup {MakeFloat(0, 1), MakeFloat(3, 2), MakeFloat(-2, 1)}
    \cup {MakeInterval(0), MakeInterval(4)}
    \cup {Null}

BinaryOps == {"Add", "Sub", "Mul", "Div", "Mod", "FloatDiv"}

\* the texts of Number tokens given to MakeNumberFromLiteral
ArithLiterals ==
    {<<"0">>, <<"1">>, <<"0","0","7">>, IntToStr(MaxInt64), IntToStr(MaxInt64 + 1),
     <<"0","x","0">>, <<"0","x","1">>, <<"0","x","7">>, <<"0","X","1","0">>, <<"0","x","f","f","f">>, <<"1",".","5">>, <<"1","e","1">>}

mkCall(op, a, b, s) == [op |-> op, a |-> a, b |-> b, s |-> s]

ArithCalls ==
    {mkCall(op, a, b, <<>>) : op \in BinaryOps, a \in ArithOperands, b \in ArithOperands}
    \cup {mkCall("Neg", a, NilValue, <<>>) : a \in ArithOperands}
    \cup {mkCall("MakeInt", NilValue, NilValue, IntToStr(n)) : n \in ArithInts \cup ArithBigs}
    \cup {mkCall("MakeNumberFromLiteral", NilValue, NilValue, s) : s \in ArithLiterals}

InitArith ==
    /\ mode = "arith"
    /\ pc = "call"
    /\ operands \in ArithCalls
    /\ returned = None
    /\ src = None
    /\ lx = None /\ toks = None
    /\ ast = None /\ printed = None /\ reparsed = None
    /\ parsed = None
    /\ cctx = None /\ nodes = None /\ evals = None
    /\ row = None /\ rowState = None /\ result = None

\* the call operands.op is made and its outcome kept
callReturns(op, r) ==
    /\ mode = "arith"
    /\ pc = "call"
    /\ operands.op = op
    /\ returned' = r
    /\ pc' = "done"
    /\ UNCHANGED <<rowVars, operands, mode, src, lexVars, exprVars, parsed, evalVars>>

\* the decimal text of a big.Int, read back (big.Int.SetString)
bigOf(s) == IF s # <<>> /\ Head(s) = "-" THEN -ParseBase(Tail(s), 10, 0) ELSE ParseBase(s, 10, 0)

MakeIntCall == callReturns("MakeInt", VOk(MakeInt(bigOf(operands.s))))

MakeNumberFromLiteralCall ==
    callReturns("MakeNumberFromLiteral",
                IF MakeNumberFromLiteral(operands.s).ok
                THEN VOk(MakeNumberFromLiteral(operands.s).v) ELSE VErr)

AddCall == callReturns("Add", Add(operands.a, operands.b))

SubCall == callReturns("Sub", Sub(operands.a, operands.b))

MulCall == callReturns("Mul", Mul(operands.a, operands.b))

DivCall == callReturns("Div", Div(operands.a, operands.b))

ModCall == callReturns("Mod", Mod(operands.a, operands.b))

FloatDivCall == callReturns("FloatDiv", FloatDiv(operands.a, operands.b))

NegCall == callReturns("Neg", Neg(operands.a))

NextArith ==
    \/ MakeIntCall
    \/ MakeNumberFromLiteralCall
    \/ AddCall
    \/ SubCall
    \/ MulCall
    \/ DivCall
    \/ ModCall
    \/ FloatDivCall
    \/ NegCall

SpecArith == InitArith /\ [][NextArith]_vars
----------------------------------------------------------------------------
(* One call of GenerateSeriesFunc.Compile *)

\* start and stop values: small ones, the ends of the 64-bit range, and
\* big integers just beyond it
SeriesInts ==
    {MakeInt64(n) : n \in (-2 .. 3) \cup {MinInt64, MinInt64 + 1, MaxInt64 - 1, MaxInt64}}
    \cup {bigIntVal(1), bigIntVal(MaxInt64 + 1), bigIntVal(MaxInt64 + 2), bigIntVal(MinInt64 - 1)}

SeriesSteps == {MakeInt64(n) : n \in -2 .. 2} \cup {bigIntVal(2), bigIntVal(0)}

\* the number of terms of the series from a by s that are not beyond b
SeriesLen(a, b, s) ==
    IF s = 0 \/ (s > 0 /\ a > b) \/ (s < 0 /\ a < b) THEN 0
    ELSE (IF s > 0 THEN (b - a) \div s ELSE (a - b) \div (-s)) + 1

\* the argument lists: none, one, two, three and four arguments; series
\* longer than MaxSeries are left out
SeriesArgs ==
    {<<>>}
    \cup {<<a>> : a \in SeriesInts}
    \cup {<<a, b>> \in SeriesInts \X SeriesInts : SeriesLen(a.n, b.n, 1) <= MaxSeries}
    \cup {<<a, b, s>> \in SeriesInts \X SeriesInts \X SeriesSteps :
            SeriesLen(a.n, b.n, s.n) <= MaxSeries}
    \cup {<<a, b, s, s>> : a \in {MakeInt64(1)}, b \in {MakeInt64(3)}, s \in SeriesSteps}

InitSeries ==
    /\ mode = "series"
    /\ pc = "call"
    /\ operands \in SeriesArgs
    /\ returned = None
    /\ src = None
    /\ lx = None /\ toks = None
    /\ ast = None /\ printed = None /\ reparsed = None
    /\ parsed = None
    /\ cctx = None /\ nodes = None /\ evals = None
    /\ row = None /\ rowState = None /\ result = None

GenerateSeriesCall ==
    /\ mode = "series"
    /\ pc = "call"
    /\ returned' = GenerateSeriesCompile(operands)
    /\ pc' = "done"
    /\ UNCHANGED <<rowVars, operands, mode, src, lexVars, exprVars, parsed, evalVars>>

NextSeries == GenerateSeriesCall

SpecSeries == InitSeries /\ [][NextSeries]_vars
----------------------------------------------------------------------------
(* Qualified names: NewQName on two lists of identifier texts, then Equal *)

\* identifier tokens as the lexer hands them over, each with the normalised
\* name it stands for: plain, upper case, quoted with a period inside, with
\* a doubled quote, bracketed, with the text %2E inside, and empty
NameTable ==
    { <<<<"a">>, <<"a">>>>,
      <<<<"A">>, <<"a">>>>,
      <<<<"'","a",".","a","'">>, <<"a",".","a">>>>,
      <<<<BackQuote,"a",BackQuote,BackQuote,"A",BackQuote>>, <<"a",BackQuote,"a">>>>,
      <<<<"[","A","]">>, <<"a">>>>,
      <<<<"\"","a","%","2","E","a","\"">>, <<"a","%","2","e","a">>>>,
      <<<<BackQuote,BackQuote>>, <<>>>> }

NameTexts == {t[1] : t \in NameTable}

\* the most parts a name has (parseQName reads up to three)
MaxQNameParts == 2

QNameTexts == UNION {[1 .. n -> NameTexts] : n \in 1 .. MaxQNameParts}

InitQName ==
    /\ mode = "qname"
    /\ pc = "new"
    /\ operands \in [q : QNameTexts, p : QNameTexts]
    /\ returned = None
    /\ src = None
    /\ lx = None /\ toks = None
    /\ ast = None /\ printed = None /\ reparsed = None
    /\ parsed = None
    /\ cctx = None /\ nodes = None /\ evals = None
    /\ row = None /\ rowState = None /\ result = None

NewQNameCall ==
    /\ mode = "qname"
    /\ pc = "new"
    /\ returned' = [q |-> NewQName(operands.q), p |-> NewQName(operands.p),
                    unique |-> <<>>, equal |-> FALSE]
    /\ pc' = "equal"
    /\ UNCHANGED <<rowVars, operands, mode, src, lexVars, exprVars, parsed, evalVars>>

EqualCall ==
    /\ mode = "qname"
    /\ pc = "equal"
    /\ returned' = [returned EXCEPT !.unique = UniqueName(returned.q),
                                    !.equal = QNameEqual(returned.q, returned.p)]
    /\ pc' = "done"
    /\ UNCHANGED <<rowVars, operands, mode, src, lexVars, exprVars, parsed, evalVars>>

NextQName == NewQNameCall \/ EqualCall

SpecQName == InitQName /\ [][NextQName]_vars
----------------------------------------------------------------------------
(* Texts that end in an unterminated quote or comment: the lexer is called
   on after its Error token, as Parser.next calls it, and the text is parsed *)

\* a template with blocks, a comment, nested parentheses and two tables
ErrorBase ==
    <<"{","{","@","a",":","=","1","}","}"," ","c","r","e","a","t","e"," ","t","a","b","l","e"," ","t"," ","(","a"," ","{","{","f","(","2",")","}","}"," ","(","b"," ","'","c","'",")"," ","/","*","{","{","3","}","}","*","/",")"," ","d",";"," ","/","*"," ","e"," ","*","/"," ","{","{","f","o","r"," ","e","a","c","h"," ","r","o","w"," ","o","f"," ","t"," ","g","e","n","e","r","a","t","e"," ","2"," ","r","o","w","s"," ","o","f"," ","u","}","}"," ","c","r","e","a","t","e"," ","t","a","b","l","e"," ","u"," ","(","g"," ","{","{","4","}","}",")",";">>

\* what the text is cut short by
ErrorEndings == { <<>>, <<"'","x">>, <<"\"","x">>, <<BackQuote,"x">>, <<"/","*"," ","x">> }

ErrorInputs ==
    { SubSeq(ErrorBase, 1, n) \o e : n \in 0 .. Len(ErrorBase), e \in ErrorEndings }

\* lex() calls made after the first Error or EOF token
MaxLaterCalls == 2

InitLexError ==
    /\ mode = "lexerror"
    /\ src \in ErrorInputs
    /\ lx = newLexer(src)
    /\ toks = <<>>
    /\ pc = "lex"
    /\ ast = None /\ printed = None /\ reparsed = None
    /\ parsed = None
    /\ row = None /\ rowState = None /\ result = None
    /\ operands = None /\ returned = None
    /\ cctx = None /\ nodes = None /\ evals = None

\* the tokens of toks from the first Error or EOF on
EndTokens(ts) == {i \in DOMAIN ts : ts[i].typ \in {"EOF", "Error", "Panic"}}

\* one more lex(), also after the Error token
LexOnStep ==
    /\ mode = "lexerror"
    /\ pc = "lex"
    /\ toks' = Append(toks, lex(lx).tok)
    /\ lx' = lex(lx).l
    /\ pc' = IF Cardinality(EndTokens(toks')) > MaxLaterCalls \/ lex(lx).tok.typ = "Panic"
             THEN "parse" ELSE "lex"
    /\ UNCHANGED <<rowVars, callVars, mode, src, exprVars, parsed, evalVars>>

\* Parse on the same text
ParseTextStep ==
    /\ mode = "lexerror"
    /\ pc = "parse"
    /\ parsed' = Parse(src)
    /\ pc' = "done"
    /\ UNCHANGED <<rowVars, callVars, mode, src, lexVars, exprVars, evalVars>>

NextLexError == LexOnStep \/ ParseTextStep

SpecLexError == InitLexError /\ [][NextLexError]_vars
----------------------------------------------------------------------------
(* ParseExpr on chains of operands and binary operators *)

\* the binary operators with the text each is written as
PrecOpTable ==
    { <<"Assign", <<":","=">>>>, <<"Or", <<"o","r">>>>, <<"And", <<"a","n","d">>>>,
      <<"EQ", <<"=">>>>, <<"NE", <<"<",">">>>>, <<"LT", <<"<">>>>, <<"Is", <<"i","s">>>>,
      <<"IsNot", <<"i","s"," ","n","o","t">>>>, <<"BitOr", <<"|">>>>, <<"BitXor", <<"^">>>>,
      <<"BitAnd", <<"&">>>>, <<"Add", <<"+">>>>, <<"Sub", <<"-">>>>, <<"Concat", <<"|","|">>>>,
      <<"Mul", <<"*">>>>, <<"FloatDiv", <<"/">>>> }

PrecOps == {t[1] : t \in PrecOpTable}

PrecOpText(op) == (CHOOSE t \in PrecOpTable : t[1] = op)[2]

\* one operator of each kind, for the chains of three operators
PrecOpsShort == {"Assign", "And", "EQ", "Add", "Mul"}

\* an operand: a number or a variable, under an optional unary operator,
\* under an optional NOT
PrecOperand(not, un, var) == [not |-> not, un |-> un, var |-> var]

PrecOperands ==
    { PrecOperand(FALSE, "", FALSE), PrecOperand(TRUE, "", FALSE),
      PrecOperand(FALSE, "Sub", FALSE), PrecOperand(TRUE, "BitNot", FALSE),
      PrecOperand(FALSE, "", TRUE) }

PrecOperandsShort == {PrecOperand(FALSE, "", FALSE), PrecOperand(TRUE, "", FALSE)}

\* the i-th primary: the number i or the i-th variable
PrecPrimaryText(x, i) ==
    IF x.var THEN <<"@", <<"a", "b", "c", "d">>[i]>> ELSE <<<<"1", "2", "3", "4">>[i]>>

PrecOperandText(x, i) ==
    (IF x.not THEN <<"n","o","t"," ">> ELSE <<>>)
    \o (IF x.un = "Sub" THEN <<"-"," ">> ELSE IF x.un = "BitNot" THEN <<"~"," ">> ELSE <<>>)
    \o PrecPrimaryText(x, i)

RECURSIVE PrecTextFrom(_, _)
PrecTextFrom(c, i) ==
    IF i = Len(c.xs) THEN PrecOperandText(c.xs[i], i)
    ELSE PrecOperandText(c.xs[i], i) \o <<" ">> \o PrecOpText(c.ops[i]) \o <<" ">> \o PrecTextFrom(c, i + 1)

PrecText(c) == PrecTextFrom(c, 1)

PrecCases ==
    {[xs |-> <<a, b, c>>, ops |-> <<o, p>>] :
        a \in PrecOperands, b \in PrecOperands, c \in PrecOperands, o \in PrecOps, p \in PrecOps}
    \cup {[xs |-> <<a, b, c, d>>, ops |-> <<o, p, q>>] :
        a \in PrecOperandsShort, b \in PrecOperandsShort, c \in PrecOperandsShort,
        d \in PrecOperandsShort, o \in PrecOpsShort, p \in PrecOpsShort, q \in PrecOpsShort}

InitPrec ==
    /\ mode = "prec"
    /\ pc = "parse"
    /\ operands \in PrecCases
    /\ src = PrecText(operands)
    /\ returned = None
    /\ lx = None /\ toks = None
    /\ ast = None /\ printed = None /\ reparsed = None
    /\ parsed = None
    /\ cctx = None /\ nodes = None /\ evals = None
    /\ row = None /\ rowState = None /\ result = None

ParseChainStep ==
    /\ mode = "prec"
    /\ pc = "parse"
    /\ ast' = ParseExpr(src)
    /\ pc' = "done"
    /\ UNCHANGED <<rowVars, callVars, mode, src, lexVars, printed, reparsed, parsed, evalVars>>

NextPrec == ParseChainStep

SpecPrec == InitPrec /\ [][NextPrec]_vars
----------------------------------------------------------------------------
(* Parse on one CREATE TABLE whose elements are text and blocks laid out
   over lines *)

\* what stands among the elements: text, spaces, a newline, blocks
ContentPieces ==
    { [text |-> <<"a">>, block |-> FALSE], [text |-> <<" ">>, block |-> FALSE],
      [text |-> <<"\n">>, block |-> FALSE], [text |-> <<"{","{","1","}","}">>, block |-> TRUE],
      [text |-> <<"/","*","{","{","2","}","}","*","/">>, block |-> TRUE] }

MaxContentPieces == 5

ContentHead == <<"c","r","e","a","t","e"," ","t","a","b","l","e"," ","t"," ","(">>

\* the table ends at its semicolon, at the end of the input, or at a
\* semicolon with text after it
ContentTails == { <<")",";">>, <<")">>, <<")",";","\n"," ">> }

ContentLayouts ==
    [ps : SeqsUpTo(ContentPieces, MaxContentPieces), tail : ContentTails]

LayoutText(c) == ContentHead \o PiecesText(c.ps) \o c.tail

InitContent ==
    /\ mode = "content"
    /\ pc = "parse"
    /\ operands \in ContentLayouts
    /\ src = LayoutText(operands)
    /\ returned = None
    /\ lx = None /\ toks = None
    /\ ast = None /\ printed = None /\ reparsed = None
    /\ parsed = None
    /\ cctx = None /\ nodes = None /\ evals = None
    /\ row = None /\ rowState = None /\ result = None

ParseLayoutStep ==
    /\ mode = "content"
    /\ pc = "parse"
    /\ parsed' = Parse(src)
    /\ pc' = "done"
    /\ UNCHANGED <<rowVars, callVars, mode, src, lexVars, exprVars, evalVars>>

NextContent == ParseLayoutStep

SpecContent == InitContent /\ [][NextContent]_vars
----------------------------------------------------------------------------
(* Claims *)

\* strings.Count(s[:n], "\n")
CountNewlines(s, n) == Cardinality({i \in 1 .. n : s[i] = "\n"})

\* strings.LastIndexByte(s[:n], '\n')
LastNewline(s, n) ==
    Let([nl \in {{i \in 0 .. n - 1 : s[i + 1] = "\n"}} |->
        IF nl = {} THEN -1 ELSE SetMax(nl)])

TokenAtItsPlace(s, t) ==
    /\ t.pos + Len(t.val) <= Len(s)
    /\ SubSeq(s, t.pos + 1, t.pos + Len(t.val)) = t.val
    /\ t.line = 1 + CountNewlines(s, t.pos)
    /\ t.col = t.pos - LastNewline(s, t.pos)

\* C3: every non-Error token returned by successive lex() calls, up to the
\* first EOF or Error, has its lexeme at its offset in the input, and its line
\* and column are those of that offset in the input's newline structure.
C3_TokensMatchInput ==
    mode = "lex" =>
        \A i \in DOMAIN toks :
            toks[i].typ \notin {"Error", "Panic"} => TokenAtItsPlace(src, toks[i])


\* strings.Contains(s, sub)
Contains(s, sub) ==
    \E i \in 1 .. Len(s) - Len(sub) + 1 : SubSeq(s, i, i + Len(sub) - 1) = sub

\* C1: after a successful Parse, no table's Content contains a block
\* delimiter "{{" or "}}", wherever the blocks were placed in the CREATE
\* TABLE: among the elements, inside nested parentheses, among the options.
C1_ContentHasNoDelimiters ==
    (mode = "template" /\ pc = "done" /\ parsed.st = "ok") =>
        \A i \in DOMAIN parsed.tmpl.Tables :
            /\ ~Contains(parsed.tmpl.Tables[i].Content, leftDelim)
            /\ ~Contains(parsed.tmpl.Tables[i].Content, rightDelim)

\* the derive blocks of the input named their row counts 1, 2, ... in order,
\* so an edge's count names the block it came from
EdgeBlock(e) == e.count.val.n

\* C4: after a successful Parse every edge (c, count) in Tables[i].Derived
\* has i < c < len(Tables), and c is the index of the table declared right
\* after the derive block the edge came from (the k-th block is followed by
\* Tables[k]); every table but the first is the target of exactly one edge.
\* Tables may share names and a table may have several children.
C4_DerivedEdgesPointForward ==
    (mode = "template" /\ pc = "done" /\ parsed.st = "ok" /\ src \in DerivedInputs) =>
        Let([T \in {parsed.tmpl.Tables} |->
            Let([Edges \in {{<<i, j>> \in (DOMAIN T) \X (1 .. MaxDerived) : j \in DOMAIN T[i].Derived}} |->
            /\ \A ij \in Edges :
                Let([e \in {T[ij[1]].Derived[ij[2]]} |->
                    /\ ij[1] - 1 < e.index
                    /\ e.index < Len(T)
                    /\ e.index = EdgeBlock(e)])
            /\ \A c \in 1 .. Len(T) - 1 :
                Cardinality({ij \in Edges : T[ij[1]].Derived[ij[2]].index = c}) = 1])])

\* a parent with two children, the second declared under a name already used
C4_TwoChildrenSharedName ==
    /\ mode = "template" /\ pc = "done" /\ parsed.st = "ok" /\ src \in DerivedInputs
    /\ Len(parsed.tmpl.Tables) = 3
    /\ Len(parsed.tmpl.Tables[1].Derived) = 2
    /\ QNameEqual(parsed.tmpl.Tables[1].Name, parsed.tmpl.Tables[3].Name)

\* C2: for every expression e that ParseExpr accepts, ParseExpr(e.String())
\* succeeds and yields an expression structurally equal to e (no input here
\* prints a byte string as X'..', so every printed form is canonical).
C2_StringRoundTrips ==
    (mode = "expr" /\ pc = "done" /\ ast.st = "ok") =>
        /\ reparsed.st = "ok"
        /\ reparsed.e = ast.e

\* every GetVariable / SetVariable node of the compiled tree c carries the
\* index at which variables holds the name its expression wrote
RECURSIVE VarNodesOk(_, _, _)
VarNodesOk(expr, c, variables) ==
    IF expr.k \in {"GetVariable", "SetVariable"}
    THEN /\ c.k = expr.k
         /\ c.index \in 0 .. Len(variables) - 1
         /\ variables[c.index + 1].A = expr.name
    ELSE IF expr.k = "ParenExpr" THEN VarNodesOk(expr.kids[1], c, variables)
    ELSE IF c.k \in {"RawFunction", "CaseValueWhen"}
    THEN \A i \in DOMAIN expr.kids \cap DOMAIN c.kids :
            expr.kids[i].k = "nil" \/ VarNodesOk(expr.kids[i], c.kids[i], variables)
    ELSE TRUE

NoDuplicateNames(variables) ==
    \A i, j \in DOMAIN variables : variables[i].A = variables[j].A => i = j

\* new holds every entry of old at its place under its name, followed by
\* entries whose value is NULL
AppendsNulls(old, new) ==
    /\ Len(new) >= Len(old)
    /\ \A i \in DOMAIN old : new[i].A = old[i].A
    /\ \A i \in Len(old) + 1 .. Len(new) : new[i].B = Null

\* C5: across any sequence of CompileExpr calls on one context, successful
\* or failing, Variables only grows by appended NULL entries: no name is
\* held twice, no entry is renamed or moved (a CompileExpr call leaves the
\* old entries as they were), and every GetVariable / SetVariable node
\* returned carries the index of its variable's name.
C5_VariablesAppendOnly ==
    /\ [](mode = "eval" =>
            /\ NoDuplicateNames(cctx.Variables)
            /\ \A i \in DOMAIN nodes :
                nodes[i].st = "ok" => VarNodesOk(nodes[i].expr, nodes[i].c, cctx.Variables))
    /\ [][mode = "eval" =>
            /\ AppendsNulls(cctx.Variables, cctx'.Variables)
            /\ nodes' # nodes =>
                 SubSeq(cctx'.Variables, 1, Len(cctx.Variables)) = cctx.Variables]_vars

\* a failing CompileExpr that registered a name, then a successful one that
\* registers a second name and reuses the first one's index
C5_FailedThenReused ==
    /\ mode = "eval"
    /\ Len(nodes) = 2
    /\ nodes[1].st = "error"
    /\ nodes[2].st = "ok"
    /\ nodes[2].c.k = "RawFunction"
    /\ Len(cctx.Variables) = 2
    /\ nodes[2].c.kids[1].k = "GetVariable" /\ nodes[2].c.kids[1].index = 1
    /\ nodes[2].c.kids[2].k = "GetVariable" /\ nodes[2].c.kids[2].index = 0

\* the names of the variables an expression reads or assigns
RECURSIVE VarNames(_)
VarNames(expr) ==
    (IF expr.k \in {"GetVariable", "SetVariable"} THEN {expr.name} ELSE {})
        \cup UNION {VarNames(expr.kids[i]) : i \in DOMAIN expr.kids}

\* C6: "@x := e" compiles to a SetVariable node that holds x's index and the
\* compiled form of e, the variables of e being registered by that compile;
\* evaluating the node succeeds, stores the value of e in Variables[index]
\* and returns it, so that a later GetVariable of x sees it.
C6_AssignmentStoresValue ==
    mode = "eval" =>
        /\ \A i \in DOMAIN nodes :
            (nodes[i].expr.k = "SetVariable" /\ nodes[i].st = "ok") =>
                /\ nodes[i].c.k = "SetVariable"
                /\ nodes[i].c.kids[1].k # "nil"
                /\ VarNames(nodes[i].expr) \subseteq
                       {cctx.Variables[n].A : n \in DOMAIN cctx.Variables}
        /\ \A j \in DOMAIN evals :
            nodes[evals[j].node].expr.k = "SetVariable" =>
                /\ evals[j].st = "ok"
                /\ j = Len(evals) =>
                     cctx.Variables[nodes[evals[j].node].c.index + 1].B = evals[j].v

\* the last expression of a statement e1 ; ... ; en
RECURSIVE LastOfStmt(_)
LastOfStmt(expr) ==
    IF expr.k = "BinaryExpr" /\ expr.op = "Semicolon" THEN LastOfStmt(expr.kids[2]) ELSE expr

\* C7: a statement e1 ; ... ; en that the parser accepted compiles
\* successfully, and evaluating it succeeds with the value of en.
C7_StatementYieldsLast ==
    mode = "eval" =>
        /\ \A i \in DOMAIN nodes :
            (nodes[i].expr.k = "BinaryExpr" /\ nodes[i].expr.op = "Semicolon") =>
                nodes[i].st = "ok"
        /\ \A j \in DOMAIN evals :
            Let([n \in {nodes[evals[j].node]} |->
                (n.expr.k = "BinaryExpr" /\ n.expr.op = "Semicolon") =>
                    /\ evals[j].st = "ok"
                    /\ Let([last \in {CompileExpr(cctx, LastOfStmt(n.expr))} |->
                           evals[j].v = Eval(last.c, State(evals[j].rowNum, 1, last.ctx)).v])])

\* the value the CASE expression expr, all of whose operands are constants,
\* is required to have: the THEN of the first arm whose condition equals
\* the value operand (is TRUE when no value operand was written), else ELSE
RECURSIVE CaseArms(_, _, _)
CaseArms(value, else, arms) ==
    IF arms = <<>> THEN (IF else.k = "nil" THEN Null ELSE else.val)
    ELSE Let([cond \in {arms[1].val} |->
             Let([hit \in {IF value.k = "nil" THEN cond = MakeBool(TRUE)
                           ELSE Let([r \in {Cmp(value.val, cond)} |->
                                    r.st = "ok" /\ ~r.isNull /\ r.cmp = 0])} |->
             IF hit THEN arms[2].val ELSE CaseArms(value, else, SubSeq(arms, 3, Len(arms)))])])

CaseResult(expr) == CaseArms(expr.kids[1], expr.kids[2], SubSeq(expr.kids, 3, Len(expr.kids)))

ConstantCase(expr) ==
    /\ expr.k = "CaseValueWhen"
    /\ \A i \in DOMAIN expr.kids : expr.kids[i].k \in {"Constant", "nil"}

\* C8: a CASE expression yields the THEN of the first matching arm, or its
\* ELSE (NULL when absent); with all-constant operands this happens at
\* compile time, as "case 2 when 1 then 'a' when 2 then 'b' else 'c' end"
\* compiles to the constant Bytes("b"); a CASE over a row-dependent operand
\* compiles to a node whose evaluation returns a value.
C8_CaseYieldsFirstMatch ==
    (mode = "fold" /\ nodes # <<>> /\ nodes[1].expr.k = "CaseValueWhen") =>
        /\ nodes[1].st = "ok"
        /\ ConstantCase(nodes[1].expr) => nodes[1].c = CConstant(CaseResult(nodes[1].expr))
        /\ \A j \in DOMAIN evals : evals[j].st = "ok"

\* C10: for every expression that ParseExpr accepts, CompileExpr and the
\* Eval of its result against a State over the compiling context return a
\* value or an error: neither panics.
C10_NoPanic ==
    mode = "fold" =>
        /\ \A i \in DOMAIN nodes : nodes[i].st # "panic"
        /\ \A j \in DOMAIN evals : evals[j].st # "panic"

FunctionKinds ==
    {"UnaryExpr", "BinaryExpr", "FuncExpr", "Timestamp", "Interval", "Array", "Subscript",
     "Substring", "Overlay"}

\* expr is bound to a function by CompileExpr
HasFuncOf(expr) ==
    CASE expr.k = "UnaryExpr" -> HasUnaryFunc(expr.op)
      [] expr.k = "BinaryExpr" -> HasBinaryFunc(expr.op)
      [] expr.k = "FuncExpr" ->
            /\ HasGenericFunc(UniqueName(expr.qn))
            /\ Let([fn \in {GenericFunc(UniqueName(expr.qn))} |->
                   NumArgs(fn) < 0 \/ Len(expr.kids) = NumArgs(fn)])
      [] OTHER -> expr.k \in FunctionKinds

\* the function and the argument expressions CompileExpr passes on for expr
FuncOf(expr) ==
    CASE expr.k = "UnaryExpr" -> UnaryFunc(expr.op)
      [] expr.k = "BinaryExpr" -> BinaryFunc(expr.op)
      [] expr.k = "FuncExpr" -> GenericFunc(UniqueName(expr.qn))
      [] expr.k = "Timestamp" ->
            IF expr.op = "WithTimezone" THEN Fn("TimestampWithTimeZoneFunc", "") ELSE Fn("TimestampFunc", "")
      [] expr.k = "Interval" -> BinaryFunc("Mul")
      [] expr.k = "Array" -> Fn("ArrayFunc", "")
      [] expr.k = "Subscript" -> Fn("SubscriptFunc", "")
      [] expr.k = "Substring" -> Fn("SubstringFunc", expr.op)
      [] expr.k = "Overlay" -> Fn("OverlayFunc", expr.op)

ArgsOf(expr) ==
    IF expr.k = "Interval" THEN <<expr.kids[1], Constant(MakeInterval(UnitDuration(expr.op)))>>
    ELSE expr.kids

\* expr is built only from constants and implemented functions and operators
RECURSIVE InFoldClass(_)
InFoldClass(expr) ==
    CASE expr.k \in {"Constant", "CurrentTimestamp"} -> TRUE
      [] expr.k = "ParenExpr" -> InFoldClass(expr.kids[1])
      [] expr.k \in FunctionKinds ->
            /\ HasFuncOf(expr)
            /\ FuncOf(expr).f \notin Unimplemented
            /\ \A i \in DOMAIN expr.kids : expr.kids[i].k = "nil" \/ InFoldClass(expr.kids[i])
      [] OTHER -> FALSE

\* the unfolded tree of an expression of that class: a RawFunction node for
\* every function, over the unfolded trees of its arguments
RECURSIVE UnfoldedTree(_, _)
UnfoldedTree(expr, now) ==
    CASE expr.k = "nil" -> CConstant(Null)
      [] expr.k = "Constant" -> CConstant(expr.val)
      [] expr.k = "CurrentTimestamp" -> CConstant(MakeTimestamp(now))
      [] expr.k = "ParenExpr" -> UnfoldedTree(expr.kids[1], now)
      [] OTHER ->
            CRawFunction(FuncOf(expr),
                [i \in DOMAIN ArgsOf(expr) |-> UnfoldedTree(ArgsOf(expr)[i], now)])

\* expr is a function over at least one argument that does not compile to a
\* Constant
HasNonConstantArg(expr) ==
    /\ expr.k \in FunctionKinds
    /\ HasFuncOf(expr)
    /\ \E i \in DOMAIN expr.kids :
        /\ expr.kids[i].k # "nil"
        /\ Let([r \in {CompileExpr(NewCompileContext(0), expr.kids[i])} |->
               r.st = "ok" /\ ~IsConstant(r.c)])

----------------------------------------------------------------------------
(* Row.Eval *)

RECURSIVE HasSetVariable(_)
HasSetVariable(c) ==
    c.k = "SetVariable" \/ \E i \in DOMAIN c.kids : HasSetVariable(c.kids[i])

\* The state after the writes of the SetVariable nodes of c that complete
\* when c is evaluated in state: the children are visited left to right, a
\* RawFunction stops at its first failing argument, and a SetVariable writes
\* the value of its child when the child has one.
RECURSIVE WritesOf(_, _), WritesOfArgs(_, _)
WritesOf(c, state) ==
    CASE c.k = "SetVariable" ->
            LET (* each is evaluated only where it is used *)
                s1 == WritesOf(c.kids[1], state)
                r == Eval(c.kids[1], state)
            IN  IF r.st = "ok" THEN [s1 EXCEPT !.CompileCtx.Variables[c.index + 1].B = r.v] ELSE s1
      [] c.k = "RawFunction" -> WritesOfArgs(c.kids, state)
      [] OTHER -> state

WritesOfArgs(cs, state) ==
    IF cs = <<>> THEN state
    ELSE IF Eval(Head(cs), state).st # "ok" THEN WritesOf(Head(cs), state)
    ELSE WritesOfArgs(Tail(cs), WritesOf(Head(cs), state))

\* the state after the first k columns of the row r, none of which failed
\* before the last
RECURSIVE RowWrites(_, _, _)
RowWrites(r, k, state) ==
    IF k = 0 THEN state ELSE WritesOf(r[k], RowWrites(r, k - 1, state))

\* C11: Row.Eval evaluates the columns in order and stops at the first error,
\* which it returns without values; the columns after it are not evaluated;
\* the variable slots hold exactly the writes of the SetVariable nodes that
\* completed; a SetVariable whose child fails leaves its slot as it was; and
\* no evaluation changes RowNum or SubRowNum.
C11_RowEvalStopsAtError ==
    /\ [](mode = "row" =>
            /\ Len(evals) = result.pos
            /\ \A j \in DOMAIN evals : evals[j].node = j
            /\ \A j \in 1 .. Len(evals) - 1 : evals[j].st = "ok"
            /\ (evals # <<>> /\ evals[Len(evals)].st # "ok") =>
                  /\ pc = "done"
                  /\ result.st = "error"
                  /\ result.values = <<>>
            /\ result.st = "running" => result.values = [j \in DOMAIN evals |-> evals[j].v]
            /\ result.st = "ok" =>
                  /\ Len(evals) = Len(row)
                  /\ result.values = [j \in DOMAIN row |-> evals[j].v]
            /\ pc = "done" => result.st \in {"ok", "error"}
            /\ rowState.CompileCtx.Variables =
                  RowWrites(row, result.pos,
                            State(rowState.RowNum, rowState.SubRowNum,
                                  [Variables |-> RowVariables, CurrentTimestamp |-> 0])
                           ).CompileCtx.Variables)
    /\ [][mode = "row" =>
            /\ rowState'.RowNum = rowState.RowNum
            /\ rowState'.SubRowNum = rowState.SubRowNum
            /\ pc = "done" => UNCHANGED <<evals, rowState, result>>
            /\ (evals' # evals /\ evals'[Len(evals')].st # "ok") =>
                  (\E c \in {row[Len(evals')]} :
                      /\ ~HasSetVariable(c) => rowState' = rowState
                      /\ c.k = "SetVariable" =>
                            rowState'.CompileCtx.Variables[c.index + 1]
                                = rowState.CompileCtx.Variables[c.index + 1])]_vars

\* a row whose first column assigned @a, whose second column failed after
\* one of its SetVariable nodes had written, and whose third column was
\* never evaluated
C11_FailedAfterWrites ==
    /\ mode = "row"
    /\ pc = "done"
    /\ Len(row) = 3
    /\ result.st = "error"
    /\ Len(evals) = 2
    /\ row[1] = CSetVariableOf(0, CConstant(MakeInt64(1)))
    /\ row[2].k = "RawFunction" /\ HasSetVariable(row[2])
    /\ rowState.CompileCtx.Variables[1].B = MakeInt64(2)


----------------------------------------------------------------------------
(* Integer arithmetic of package constant *)

\* an Int is held as int64Val exactly when its value fits the 64-bit range
Normalized(v) == v.kind = "Int" => (v.big <=> ~FitsInt64(v.n))

\* the call has returned a value
Returned(op) == mode = "arith" /\ pc = "done" /\ operands.op = op /\ returned.st = "ok"

\* C12: every Int that MakeInt, MakeNumberFromLiteral, Add, Sub, Mul, Div, Mod
\* or Neg returns is in the 64-bit representation when its value lies in
\* [-2^63, 2^63-1] and in the big-integer representation only outside that
\* range (stated for calls whose own operands are held that way).
C12_IntsAreNormalized ==
    (/\ mode = "arith"
     /\ pc = "done"
     /\ operands.op \in {"MakeInt", "MakeNumberFromLiteral", "Add", "Sub", "Mul", "Div", "Mod", "Neg"}
     /\ Normalized(operands.a)
     /\ Normalized(operands.b)
     /\ returned.st = "ok")
    => Normalized(returned.v)

\* both operands are Ints held in the 64-bit representation
Int64Operands ==
    /\ operands.a.kind = "Int" /\ ~operands.a.big
    /\ operands.b.kind = "Int" /\ ~operands.b.big

\* C13: for all 64-bit integers a and b, Sub(a, b) returns an Int whose value
\* is the exact difference a - b; an overflowing difference comes from the
\* big-integer path and is never the wrapped 64-bit word.
C13_SubIsExact ==
    (mode = "arith" /\ pc = "done" /\ operands.op = "Sub" /\ Int64Operands)
    => /\ returned.st = "ok"
       /\ returned.v.kind = "Int"
       /\ returned.v.n = operands.a.n - operands.b.n

\* C14: for all 64-bit integers a and b, Mul(a, b) returns an Int whose value
\* is the exact product a * b, in either operand order and for the operands
\* 0, 1, -1 and MinInt64; the wrapped product is returned only when the
\* multiplication did not overflow.
C14_MulIsExact ==
    (mode = "arith" /\ pc = "done" /\ operands.op = "Mul" /\ Int64Operands)
    => /\ returned.st = "ok"
       /\ returned.v.kind = "Int"
       /\ returned.v.n = operands.a.n * operands.b.n

\* the floor of the exact quotient a / b
FloorDiv(a, b) == IF b > 0 THEN a \div b ELSE (-a) \div (-b)

\* C15: for Int operands a and b in either representation, b not zero,
\* Div(a, b) is the floor of a / b and Mod(a, b) is a - b * floor(a / b),
\* whichever path computes it, negative operands and MinInt64 / -1 included.
C15_DivFloorsModMatches ==
    (/\ mode = "arith"
     /\ pc = "done"
     /\ operands.op \in {"Div", "Mod"}
     /\ operands.a.kind = "Int"
     /\ operands.b.kind = "Int"
     /\ operands.b.n # 0)
    => /\ returned.st = "ok"
       /\ returned.v.kind = "Int"
       /\ returned.v.n = IF operands.op = "Div"
                         THEN FloorDiv(operands.a.n, operands.b.n)
                         ELSE operands.a.n - operands.b.n * FloorDiv(operands.a.n, operands.b.n)

\* the value is the integer 0 or the float 0.0
IsZero(v) == v.kind \in {"Int", "Float"} /\ v.n = 0 /\ v.d # 0

\* C16: Div, Mod and FloatDiv of an Int or a Float (FloatDiv also of an
\* Interval) by the integer 0 or the float 0.0 return an error, never a
\* value such as an infinity or NaN.
C16_ZeroDivisorIsError ==
    (/\ mode = "arith"
     /\ pc = "done"
     /\ operands.op \in {"Div", "Mod", "FloatDiv"}
     /\ \/ operands.a.kind \in {"Int", "Float"}
        \/ operands.a.kind = "Interval" /\ operands.op = "FloatDiv"
     /\ IsZero(operands.b))
    => returned.st = "error"

----------------------------------------------------------------------------
(* generate_series *)

\* the step of the call: the third argument, or 1
SeriesStep == IF Len(operands) = 3 THEN operands[3].n ELSE 1

\* C17: with two or three integer arguments and a step that is not zero,
\* start <= stop for a positive step or start >= stop for a negative one,
\* generate_series ends and returns the array start, start + step, ... of
\* all the terms not beyond stop, in order; a zero step and fewer than 2 or
\* more than 3 arguments are errors.
C17_GenerateSeriesExact ==
    (mode = "series" /\ pc = "done")
    => /\ Len(operands) \notin {2, 3} => returned.st = "error"
       /\ (Len(operands) = 3 /\ operands[3].n = 0) => returned.st = "error"
       /\ (Len(operands) \in {2, 3}
           /\ SeriesLen(operands[1].n, operands[2].n, SeriesStep) > 0)
          => /\ returned.st = "ok"
             /\ returned.c.k = "Constant"
             /\ returned.c.val.kind = "Array"
             /\ Len(returned.c.val.a) = SeriesLen(operands[1].n, operands[2].n, SeriesStep)
             /\ \A i \in DOMAIN returned.c.val.a :
                   /\ returned.c.val.a[i].kind = "Int"
                   /\ returned.c.val.a[i].n = operands[1].n + (i - 1) * SeriesStep

\* generate_series(1, 5, 2) of the test, at the model's scale: a positive step
\* of 2 whose last term is the stop value itself, three terms
C17_SteppedSeriesReturned ==
    /\ mode = "series"
    /\ pc = "done"
    /\ Len(operands) = 3
    /\ operands[3] = MakeInt64(2)
    /\ operands[2].n = operands[1].n + 4
    /\ returned.st = "ok"
    /\ Len(returned.c.val.a) = 3

----------------------------------------------------------------------------
(* Hexadecimal literals *)

\* the text is X'h' with h an even number of hexadecimal digits
IsHexLiteral(s) ==
    /\ Len(s) >= 3
    /\ s[1] \in {"x", "X"}
    /\ s[2] = "'"
    /\ s[Len(s)] = "'"
    /\ HexDecode(SubSeq(s, 3, Len(s) - 1)).ok

\* C18: for a string literal h of an even number of hexadecimal digits, the
\* expression X'h' parses to a call that the function registry resolves:
\* CompileExpr succeeds and returns the constant Bytes value that
\* hex-decoding h gives.
C18_HexLiteralCompiles ==
    (mode = "fold" /\ IsHexLiteral(src) /\ pc # "parse")
    => /\ ast.st = "ok"
       /\ (nodes # <<>>
           => /\ nodes[1].st = "ok"
              /\ nodes[1].c = CConstant(MakeBytes(HexDecode(SubSeq(src, 3, Len(src) - 1)).b)))

----------------------------------------------------------------------------
(* Derived tables *)

\* a derive block and the table after it: <<parent, child, name>>
DeriveTriples == TableNames \X TableNames \X TableNames

StartsWith(s, pre) == Len(s) >= Len(pre) /\ SubSeq(s, 1, Len(pre)) = pre

\* the chains of blocks k, k + 1, ... (each followed by its table) that s is
\* the text of
RECURSIVE ChainsOf(_, _)
ChainsOf(s, k) ==
    IF s = <<>> THEN {<<>>}
    ELSE UNION { {<<t>> \o rest :
                    rest \in ChainsOf(SubSeq(s, Len(DeriveText(k, t[1], t[2], t[3])) + 1, Len(s)),
                                      k + 1)} :
                 t \in {u \in DeriveTriples : StartsWith(s, DeriveText(k, u[1], u[2], u[3]))} }

\* the first table's name and the chain of blocks that the input is the text of
DeriveSpecsOf(s) ==
    UNION { {<<name0, ch>> :
               ch \in ChainsOf(SubSeq(s, Len(TableText(name0)) + 1, Len(s)), 1)} :
            name0 \in {n \in TableNames : StartsWith(s, TableText(n))} }

\* the names of the tables declared before block k (the first table is name0)
EarlierNames(name0, ch, k) == <<name0>> \o [i \in 1 .. k - 1 |-> ch[i][3]]

\* block k names its child as the table after it does, and a table
\* declared before it as parent
BlockOk(name0, ch, k) ==
    /\ ch[k][2] = ch[k][3]
    /\ ch[k][1] \in Range(EarlierNames(name0, ch, k))

\* the position (from 1) of the first table before block k named as its parent
FirstParent(name0, ch, k) ==
    SetMin({i \in 1 .. k : EarlierNames(name0, ch, k)[i] = ch[k][1]})

\* C19: when the table after a derive block is not named as the block's
\* child, or no table parsed before it is named as the block's parent (the
\* parent may name the child itself or a later table), Parse returns a
\* syntax error and no template; otherwise each block appends exactly one
\* edge, to the first earlier table of the parent's name.  The names here are
\* plain identifiers, which are their own unique names.
C19_DeriveBlockChecked ==
    (mode = "template" /\ pc = "done") =>
        /\ src \in DerivedInputs => DeriveSpecsOf(src) # {}
        /\ \A spec \in DeriveSpecsOf(src) :
              Let([name0 \in {spec[1]} |-> Let([ch \in {spec[2]} |->
                IF \E k \in DOMAIN ch : ~BlockOk(name0, ch, k)
                THEN /\ parsed.st = "error"
                     /\ parsed.tmpl = NilTemplate
                     /\ DOMAIN parsed.err = {"Line", "Column", "Near", "Cause"}
                ELSE /\ parsed.st = "ok"
                     /\ Len(parsed.tmpl.Tables) = Len(ch) + 1
                     /\ \A i \in DOMAIN parsed.tmpl.Tables :
                           Let([D \in {parsed.tmpl.Tables[i].Derived} |->
                               Let([mine \in {{k \in DOMAIN ch : FirstParent(name0, ch, k) = i}} |->
                               /\ Len(D) = Cardinality(mine)
                               /\ {D[j].index : j \in DOMAIN D} = mine
                               /\ \A j \in DOMAIN D : EdgeBlock(D[j]) = D[j].index
                               /\ \A j \in 1 .. Len(D) - 1 : D[j].index < D[j + 1].index])])])])

\* two earlier tables share the name of the second block's parent, and both
\* edges went to the first of them
C19_FirstOfTwoParents ==
    /\ mode = "template" /\ pc = "done" /\ parsed.st = "ok" /\ src \in DerivedInputs
    /\ Len(parsed.tmpl.Tables) = 3
    /\ QNameEqual(parsed.tmpl.Tables[1].Name, parsed.tmpl.Tables[2].Name)
    /\ Len(parsed.tmpl.Tables[1].Derived) = 2
    /\ parsed.tmpl.Tables[2].Derived = <<>>

----------------------------------------------------------------------------
(* Qualified names *)

\* the normalised name an identifier text stands for
NormalOf(t) == (CHOOSE e \in NameTable : e[1] = t)[2]

NormalParts(ts) == [i \in DOMAIN ts |-> NormalOf(ts[i])]

\* the pieces of s between periods
RECURSIVE SplitPeriods(_, _)
SplitPeriods(s, piece) ==
    IF s = <<>> THEN <<piece>>
    ELSE IF Head(s) = "." THEN <<piece>> \o SplitPeriods(Tail(s), <<>>)
    ELSE SplitPeriods(Tail(s), Append(piece, Head(s)))

\* C20: NewQName keeps each part's text and normalises it (one layer of
\* quotes or brackets stripped, the doubled quote character un-doubled,
\* lower case); the unique name is the normalised parts joined with "." with
\* every "." inside a part written %2E, so that cutting it at the periods and
\* reading %2E back gives the normalised parts again; and q.Equal(p) holds
\* exactly when q and p have the same sequence of normalised parts.
C20_UniqueNameInjective ==
    /\ (mode = "qname" /\ pc # "new") =>
          /\ Len(returned.q) = Len(operands.q)
          /\ \A i \in DOMAIN returned.q :
                /\ returned.q[i].O = operands.q[i]
                /\ returned.q[i].N = NormalOf(operands.q[i])
    /\ (mode = "qname" /\ pc = "done") =>
          /\ Let([pieces \in {SplitPeriods(returned.unique, <<>>)} |->
                 [i \in DOMAIN pieces |-> ReplaceAll(pieces[i], <<"%", "2", "E">>, <<".">>)]
                    = NormalParts(operands.q)])
          /\ returned.equal <=> NormalParts(operands.q) = NormalParts(operands.p)

\* a one-part name with a period inside compared with the two-part name of
\* the same letters: different unique names, not equal
C20_PeriodInsideVersusTwoParts ==
    /\ mode = "qname"
    /\ pc = "done"
    /\ Len(operands.q) = 1
    /\ Len(operands.p) = 2
    /\ NormalOf(operands.q[1]) = <<"a", ".", "a">>
    /\ NormalParts(operands.p) = <<<<"a">>, <<"a">>>>
    /\ returned.unique = <<"a", "%", "2", "E", "a">>
    /\ ~returned.equal

----------------------------------------------------------------------------
(* Column names *)

\* the sequences of column pieces that s, up to the closing ");", is the text of
RECURSIVE PiecesOf(_)
PiecesOf(s) ==
    IF s = ColumnTail THEN {<<>>}
    ELSE UNION { {<<c>> \o rest : rest \in PiecesOf(SubSeq(s, Len(c.text) + 1, Len(s)))} :
                 c \in {d \in ColumnPieces : StartsWith(s, d.text)} }

\* the elements of the table that the input declares
ElementsOf(s) ==
    IF StartsWith(s, ColumnHead) THEN PiecesOf(SubSeq(s, Len(ColumnHead) + 1, Len(s))) ELSE {}

\* the columns the elements ps call for, pending being the first name seen
\* since the last block: <<name, number of the block>> each
RECURSIVE ExpectedColumns(_, _)
ExpectedColumns(ps, pending) ==
    IF ps = <<>> THEN <<>>
    ELSE IF Head(ps).kind = "block"
    THEN <<<<pending, Head(ps).tok>>>> \o ExpectedColumns(Tail(ps), <<>>)
    ELSE IF Head(ps).kind = "name" /\ pending = <<>>
    THEN ExpectedColumns(Tail(ps), Head(ps).tok)
    ELSE ExpectedColumns(Tail(ps), pending)

\* C21: Parse emits one Column for every statement block placed directly
\* among a table's elements, in source order; its name is the first
\* identifier, quoted identifier or keyword seen since the previous block (or
\* since the opening parenthesis), and is empty when there was none; numbers,
\* strings, commas and the tokens inside skipped parentheses or brackets do
\* not name a column.
C21_ColumnsNamedByFirstIdent ==
    (mode = "template" /\ pc = "done") =>
        /\ src \in ColumnInputs => ElementsOf(src) # {}
        /\ \A ps \in ElementsOf(src) :
              /\ parsed.st = "ok"
              /\ Len(parsed.tmpl.Tables) = 1
              /\ Len(parsed.tmpl.Tables[1].Columns) = Len(ExpectedColumns(ps, <<>>))
              /\ \A i \in DOMAIN parsed.tmpl.Tables[1].Columns :
                    /\ parsed.tmpl.Tables[1].Columns[i].Name = NewName(ExpectedColumns(ps, <<>>)[i][1])
                    /\ parsed.tmpl.Tables[1].Columns[i].Expr.k = "Constant"
                    /\ IntToStr(parsed.tmpl.Tables[1].Columns[i].Expr.val.n)
                          = ExpectedColumns(ps, <<>>)[i][2]

\* two different names before a block, which took the first of them
C21_FirstOfTwoNames ==
    /\ mode = "template" /\ pc = "done" /\ parsed.st = "ok" /\ src \in ColumnInputs
    /\ \E ps \in ElementsOf(src) :
          /\ Len(ps) = 3
          /\ ps[1].kind = "name" /\ ps[2].kind = "name" /\ ps[1] # ps[2]
          /\ ps[3].kind = "block"
          /\ Len(parsed.tmpl.Tables[1].Columns) = 1
          /\ parsed.tmpl.Tables[1].Columns[1].Name.O = ps[1].tok


\* the offset of the first "*/" of s that starts after the two-byte opener,
\* or -1
CloserAfterOpener(s) ==
    Let([at \in {{i \in 2 .. Len(s) - 2 : SubSeq(s, i + 1, i + 2) = rightComment}} |->
        IF at = {} THEN -1 ELSE SetMin(at)])

\* C22: the first lex() on a text starting with "/*" returns LeftDelim "/*{{"
\* and enters block mode exactly when the text starts with "/*{{" and the
\* first "*/" after the two-byte opener is immediately preceded by "}}";
\* otherwise it returns the Comment from "/*" through that first "*/", or the
\* Error "unclosed comment" when no "*/" follows the opener.
C22_CommentClosedAfterOpener ==
    (mode = "lex" /\ Len(toks) = 1 /\ StartsWith(src, <<"/", "*">>)) =>
        \A r \in {CloserAfterOpener(src)} :
            IF r = -1
            THEN toks[1].typ = "Error" /\ toks[1].val = <<"unclosed comment">>
            ELSE IF StartsWith(src, leftCommentedDelim) /\ SubSeq(src, r - 1, r) = rightDelim
            THEN toks[1].typ = "LeftDelim" /\ toks[1].val = leftCommentedDelim /\ lx.insideBlock
            ELSE toks[1].typ = "Comment" /\ toks[1].val = SubSeq(src, 1, r + 2)


\* the messages of lexer.errorf
LexerMessages == {<<"unterminated quoted string">>, <<"unclosed comment">>}

\* C23: once lex() has returned an Error token, every later lex() returns
\* EOF and the lexer holds no input any more; and a parse that fails at the
\* Error token (the SyntaxError is at its line and column) returns the
\* lexer's message as the Cause, with the text at the token as Near.
C23_ErrorTokenIsTerminal ==
    mode = "lexerror" =>
        \A i \in DOMAIN toks :
            toks[i].typ = "Error" =>
                /\ toks[i].val \in LexerMessages
                /\ \A j \in DOMAIN toks : j > i => toks[j].typ = "EOF"
                /\ lx.in = <<>>
                /\ (pc = "done" /\ parsed.st = "error"
                        /\ parsed.err.Line = toks[i].line /\ parsed.err.Column = toks[i].col)
                    => /\ parsed.err.Cause = toks[i].val
                       /\ StartsWith(SubSeq(src, toks[i].pos + 1, Len(src)), parsed.err.Near)

\* C23 witness: an unclosed comment inside the second table, after a derive
\* block, was followed by two more lex() calls and the parse failed at it
C23_FailedAtUnclosedComment ==
    /\ mode = "lexerror"
    /\ pc = "done"
    /\ \E i \in DOMAIN toks :
        /\ i > 20
        /\ toks[i].typ = "Error"
        /\ toks[i].val = <<"unclosed comment">>
        /\ Len(toks) = i + MaxLaterCalls
        /\ parsed.st = "error"
        /\ parsed.err.Line = toks[i].line /\ parsed.err.Column = toks[i].col
        /\ parsed.err.Cause = <<"unclosed comment">>


\* the lexer was in block mode when it returned toks[i]: the nearest
\* delimiter before it is a LeftDelim "/*{{"
InBlockModeAt(ts, i) ==
    \E k \in 1 .. i - 1 :
        /\ ts[k].typ = "LeftDelim" /\ ts[k].val = leftCommentedDelim
        /\ \A m \in k + 1 .. i - 1 : ts[m].typ \notin {"LeftDelim", "RightDelim"}

\* C27: every RightDelim token is the text "}}*/" when the lexer is in block
\* mode and the text "}}" when it is not; no RightDelim holds other characters.
C27_RightDelimLexeme ==
    mode = "lex" =>
        \A i \in DOMAIN toks :
            toks[i].typ = "RightDelim" =>
                toks[i].val = IF InBlockModeAt(toks, i) THEN rightCommentedDelim ELSE rightDelim


\* the precedence levels, lowest first; NOT lies between AND and the
\* comparisons
PrecLevel(op) ==
    CASE op = "Assign" -> 1
      [] op = "Or" -> 2
      [] op = "And" -> 3
      [] op = "Not" -> 4
      [] op \in {"EQ", "NE", "LT", "LE", "GT", "GE", "Is", "IsNot"} -> 5
      [] op \in {"BitOr", "BitXor"} -> 6
      [] op = "BitAnd" -> 7
      [] op \in {"Add", "Sub", "Concat"} -> 8
      [] op \in {"Mul", "FloatDiv"} -> 9

\* the expression of the i-th operand without its NOT
PrecOperandExpr(x, i) ==
    IF x.un # ""
    THEN UnaryExpr(x.un, Constant(MakeInt64(i)))
    ELSE IF x.var THEN GetVariable(<<<<"a", "b", "c", "d">>[i]>>) ELSE Constant(MakeInt64(i))

\* IS directly followed by NOT reads as IS NOT
ReadIsNot(c) ==
    [xs |-> [i \in DOMAIN c.xs |->
                IF i > 1 /\ c.ops[i - 1] = "Is" /\ c.xs[i].not
                THEN [c.xs[i] EXCEPT !.not = FALSE] ELSE c.xs[i]],
     ops |-> [i \in DOMAIN c.ops |->
                IF c.ops[i] = "Is" /\ c.xs[i + 1].not THEN "IsNot" ELSE c.ops[i]]]

\* the operator the chain es[1] ops[1] es[2] ... splits at: of the lowest
\* level, the last one, or the first one when the level is that of :=
SplitAt(ops) ==
    IF \E i \in DOMAIN ops : ops[i] = "Assign"
    THEN SetMin({i \in DOMAIN ops : ops[i] = "Assign"})
    ELSE SetMax({i \in DOMAIN ops : \A j \in DOMAIN ops : PrecLevel(ops[i]) <= PrecLevel(ops[j])})

\* the last operand a NOT before operand k reaches: the one before the first
\* operator from k on that is not above NOT
NotReach(ops, k) ==
    SetMin({m \in k .. Len(ops) : PrecLevel(ops[m]) < PrecLevel("Not")} \cup {Len(ops) + 1})

NoNots(n) == [i \in 1 .. n |-> FALSE]

\* x := e on a variable x is the assignment node
GroupNode(op, left, right) ==
    IF op = "Assign" /\ left.k = "GetVariable"
    THEN SetVariable(left.name, right) ELSE BinaryExpr(op, left, right)

\* The grouping of a chain by the rules, by splitting: es are the operands,
\* nots[i] says a NOT precedes es[i], ops[i] stands between es[i] and es[i+1].
RECURSIVE GroupChain(_, _, _)
RECURSIVE GroupNot(_, _, _, _)
RECURSIVE GroupSplit(_, _, _)
GroupChain(es, nots, ops) ==
    IF \E k \in DOMAIN nots : nots[k]
    THEN \* the last NOT takes its reach as operand
         GroupNot(es, nots, ops, SetMax({k \in DOMAIN nots : nots[k]}))
    ELSE IF Len(es) = 1 THEN es[1]
    ELSE GroupSplit(es, ops, SplitAt(ops))

GroupNot(es, nots, ops, k) ==
    GroupChain(SubSeq(es, 1, k - 1)
                 \o <<UnaryExpr("Not", GroupChain(SubSeq(es, k, NotReach(ops, k)),
                                                 NoNots(NotReach(ops, k) - k + 1),
                                                 SubSeq(ops, k, NotReach(ops, k) - 1)))>>
                 \o SubSeq(es, NotReach(ops, k) + 1, Len(es)),
               SubSeq(nots, 1, k - 1) \o <<FALSE>> \o SubSeq(nots, NotReach(ops, k) + 1, Len(nots)),
               SubSeq(ops, 1, k - 1) \o SubSeq(ops, NotReach(ops, k), Len(ops)))

GroupSplit(es, ops, i) ==
    GroupNode(ops[i],
              GroupChain(SubSeq(es, 1, i), NoNots(i), SubSeq(ops, 1, i - 1)),
              GroupChain(SubSeq(es, i + 1, Len(es)), NoNots(Len(es) - i), SubSeq(ops, i + 1, Len(ops))))

ExpectedGrouping(c) ==
    GroupChain([i \in DOMAIN c.xs |-> PrecOperandExpr(c.xs[i], i)],
               [i \in DOMAIN c.xs |-> c.xs[i].not], c.ops)

\* C24: ParseExpr groups a chain of operands and binary operators by the
\* precedence table: higher precedence binds tighter, equal precedence
\* associates to the left except := which associates to the right, IS
\* followed by NOT is IS NOT, a NOT takes everything of higher precedence
\* than NOT, and unary - and ~ apply to the following primary only.
C24_ChainsGroupedByPrecedence ==
    (mode = "prec" /\ pc = "done") =>
        /\ ast.st = "ok"
        /\ ast.e = ExpectedGrouping(ReadIsNot(operands))

\* C24 witness: in 1 * not 2 + 3 and 4 the NOT took 2 + 3 and stopped at AND
C24_NotTakesSum ==
    /\ mode = "prec"
    /\ pc = "done"
    /\ src = <<"1"," ","*"," ","n","o","t"," ","2"," ","+"," ","3"," ","a","n","d"," ","4">>
    /\ ast.st = "ok"
    /\ ast.e = BinaryExpr("And",
                 BinaryExpr("Mul", Constant(MakeInt64(1)),
                     UnaryExpr("Not", BinaryExpr("Add", Constant(MakeInt64(2)), Constant(MakeInt64(3))))),
                 Constant(MakeInt64(4)))


\* C28: a column block INTERVAL 30 unit is accepted by Parse and yields the
\* interval of 30 units, and INTERVAL 1 unit + INTERVAL 30 unit yields the sum
\* of the two intervals: the unit keyword is consumed with the interval.
C28_IntervalConsumesUnit ==
    (mode = "template" /\ pc = "done" /\ src \in IntervalInputs) =>
        /\ parsed.st = "ok"
        /\ Len(parsed.tmpl.Tables) = 1
        /\ Len(parsed.tmpl.Tables[1].Columns) = 1
        /\ \E u \in IntervalUnitTable :
              parsed.tmpl.Tables[1].Columns[1].Expr \in
                  { Interval(u[2], Constant(MakeInt64(30))),
                    BinaryExpr("Add", Interval(u[2], Constant(MakeInt64(1))),
                                      Interval(u[2], Constant(MakeInt64(30)))) }


\* C29: when ParseExpr succeeds the whole input was one expression: the
\* token the parser is left at (ast.tok) is EOF, no token remains unread.
C29_WholeInputParsed ==
    (mode = "expr" /\ pc # "parse" /\ ast.st = "ok") => ast.tok.typ = "EOF"


\* C26: generate_series over an empty range returns the array MakeArray makes
\* of an empty list, and that array is [NULL]: one element, the NULL value.
C26_EmptyArrayIsNullArray ==
    (mode = "series" /\ pc = "done" /\ Len(operands) \in {2, 3} /\ SeriesStep # 0
        /\ SeriesLen(operands[1].n, operands[2].n, SeriesStep) = 0)
    => /\ returned.st = "ok"
       /\ returned.c.k = "Constant"
       /\ returned.c.val.kind = "Array"
       /\ returned.c.val.a = <<Null>>


\* C30: Mul of an integer n and an Interval d, in either order, returns the
\* Interval of n * d nanoseconds when the product fits in 64 bits and an
\* error otherwise.
C30_IntervalTimesIntExact ==
    (mode = "arith" /\ pc = "done" /\ operands.op = "Mul"
        /\ {operands.a.kind, operands.b.kind} = {"Int", "Interval"})
    => IF FitsInt64(operands.a.n * operands.b.n)
       THEN /\ returned.st = "ok"
            /\ returned.v = MakeInterval(operands.a.n * operands.b.n)
       ELSE returned.st = "error"


\* the blocks of a layout as <<first, last>> positions of its text, in order
RECURSIVE LayoutBlocks(_, _)
LayoutBlocks(ps, off) ==
    IF ps = <<>> THEN <<>>
    ELSE (IF Head(ps).block THEN <<<<off + 1, off + Len(Head(ps).text)>>>> ELSE <<>>)
         \o LayoutBlocks(Tail(ps), off + Len(Head(ps).text))

\* the last position of the table: its semicolon, or the end of the input
LayoutEnd(c) ==
    Len(ContentHead) + Len(PiecesText(c.ps)) + (IF c.tail = <<")">> THEN 1 ELSE 2)

OnlyWhitespace(t, from, to) == \A k \in from .. to : t[k] \in {" ", "\t", "\r", "\n"}

OnlySpaces(t, from, to) == \A k \in from .. to : t[k] \in {" ", "\t"}

\* blocks i .. j are one merged span: only whitespace lies between each and
\* the next, and the run cannot be extended to either side
MergedRun(t, bs, i, j) ==
    /\ \A m \in i .. j - 1 : OnlyWhitespace(t, bs[m][2] + 1, bs[m + 1][1] - 1)
    /\ i > 1 => ~OnlyWhitespace(t, bs[i - 1][2] + 1, bs[i][1] - 1)
    /\ j < Len(bs) => ~OnlyWhitespace(t, bs[j][2] + 1, bs[j + 1][1] - 1)

MergedSpans(t, bs) ==
    {<<bs[i][1], bs[j][2]>> : <<i, j>> \in {ij \in (DOMAIN bs) \X (DOMAIN bs) :
                                             ij[1] <= ij[2] /\ MergedRun(t, bs, ij[1], ij[2])}}

NewlinesIn(t, from, to) == {k \in from .. to : t[k] = "\n"}

\* the span has a newline on both sides within the table and only spaces
\* and tabs share its line
AloneOnLine(t, end, s) ==
    /\ NewlinesIn(t, 1, s[1] - 1) # {}
    /\ NewlinesIn(t, s[2] + 1, end) # {}
    /\ OnlySpaces(t, SetMax(NewlinesIn(t, 1, s[1] - 1)) + 1, s[1] - 1)
    /\ OnlySpaces(t, s[2] + 1, SetMin(NewlinesIn(t, s[2] + 1, end)) - 1)

\* the positions that go with the span s: its line with the newline after
\* it, or the span with one space on each side
RemovedWith(t, end, s) ==
    IF AloneOnLine(t, end, s)
    THEN SetMax(NewlinesIn(t, 1, s[1] - 1)) + 1 .. SetMin(NewlinesIn(t, s[2] + 1, end))
    ELSE (s[1] .. s[2])
         \cup {k \in {s[1] - 1} : k >= 1 /\ t[k] \in {" ", "\t"}}
         \cup {k \in {s[2] + 1} : k <= end /\ t[k] \in {" ", "\t"}}

\* the content from position k on: a span that is not alone on its line
\* leaves one space where it began, everything else outside the removed
\* positions is kept
RECURSIVE ContentFrom(_, _, _, _)
ContentFrom(t, end, spans, k) ==
    IF k > end THEN <<>>
    ELSE (IF \E s \in spans : s[1] = k /\ ~AloneOnLine(t, end, s) THEN <<" ">>
          ELSE IF \E s \in spans : k \in RemovedWith(t, end, s) THEN <<>>
          ELSE <<t[k]>>)
         \o ContentFrom(t, end, spans, k + 1)

ExpectedContent(c) ==
    ContentFrom(LayoutText(c), LayoutEnd(c),
                MergedSpans(LayoutText(c), LayoutBlocks(c.ps, Len(ContentHead))), 1)

====
